---- MODULE Spec2Model ----
(***************************************************************************)
(* Participation-authority subsystem of zoom-mcp: the signed webhook       *)
(* ingestor, the Firestore participation ledger, the access-controlled     *)
(* proxy endpoints, the retention sweeper and the historical backfill.     *)
(*                                                                         *)
(* Strings the code transforms (emails, occurrence UUIDs) are sequences of *)
(* one-character strings, so that toLowerCase and the '/' -> '_'           *)
(* sanitisation are computed character by character.  Timestamps are day   *)
(* numbers.  One action is one whole handler invocation.                   *)
(***************************************************************************)
EXTENDS Integers, Sequences, FiniteSets, TLC

VARIABLES
  ledger,    \* Firestore collection meeting_participants: docId -> record
  now,       \* wall clock, in days
  ticks,     \* how many times the clock has advanced
  writes,    \* how many ledger-mutating invocations have run
  req,       \* the last invocation: its handler, the server's clock, its inputs
  resp,      \* the last invocation's HTTP response
  calls,     \* outbound calls of the last invocation, in order
  attended,  \* history: the (occurrence, email) pairs of successful ingestion
  repeated,  \* history: the last invocation repeated the successful one before it
  cachedToken,  \* admin client: the cached server-to-server token, 0 for null
  tokenExpiry,  \* admin client: the cached token's expiry, in minutes
  dateNow,      \* admin client: Date.now() of the process, in minutes
  proc,         \* admin client: each pending call's position and locals
  issued,       \* admin client: how many token exchanges were requested
  fetch,        \* importer: the rateLimitedFetch call under way
  throttling,   \* platform: whether it answers the importer's requests with 429
  inflight,     \* webhook: the deliveries being processed, each with its records
  tokenStore,   \* MCP server: the keychain entry and the tokens file
  flow          \* MCP server: the OAuth flow under way

proxyVars == <<ledger, now, ticks, writes, req, resp, calls, attended, repeated>>

adminVars == <<cachedToken, tokenExpiry, dateNow, proc, issued>>

fetchVars == <<fetch, throttling>>

authVars == <<tokenStore, flow>>

vars == <<ledger, now, ticks, writes, req, resp, calls, attended, repeated,
          cachedToken, tokenExpiry, dateNow, proc, issued, fetch, throttling, inflight,
          tokenStore, flow>>

----------------------------------------------------------------------------
(* Bounds of the model *)

\* how far the admin client's clock runs, in minutes
MaxClock == 3

\* how many token exchanges the admin client may request
MaxExchanges == 3

\* how many callback handlers of one OAuth flow may await their token exchange
MaxHandlers == 2

\* how many times the clock advances
MaxTicks == 1
\* how many ingesting invocations (deliveries and backfill runs) a behaviour holds
MaxWrites == 2
\* how many deliveries fill the ledger the proxy reads
MaxDeliveries == 1
\* for how many days after an occurrence started Zoom delivers its meeting.ended
DeliveryDays == 1

----------------------------------------------------------------------------
(* Program constants *)

RETENTION_DAYS == 365
FiveMinutesSec == 300
SecPerDay == 86400
DefaultLimit == 50
DefaultRangeDays == 30

----------------------------------------------------------------------------
(* Strings *)

Undefined == <<>>

ToLowerChar(c) ==
  CASE c = "A" -> "a"
    [] c = "B" -> "b"
    [] c = "C" -> "c"
    [] c = "X" -> "x"
    [] OTHER -> c

\* String.prototype.toLowerCase
ToLowerCase(s) == [i \in DOMAIN s |-> ToLowerChar(s[i])]

\* email.split('@')[0]
RECURSIVE LocalPart(_)
LocalPart(s) ==
  IF s = <<>> \/ Head(s) = "@" THEN <<>> ELSE <<Head(s)>> \o LocalPart(Tail(s))

\* The UTF-16 code unit of a character
CharCode(c) ==
  CASE c = "a" -> 97 [] c = "b" -> 98 [] c = "c" -> 99 [] c = "d" -> 100
    [] c = "u" -> 117 [] c = "x" -> 120
    [] c = "A" -> 65 [] c = "B" -> 66 [] c = "C" -> 67 [] c = "X" -> 88
    [] c = "@" -> 64 [] c = "/" -> 47 [] c = "_" -> 95 [] c = "+" -> 43
    [] c = "=" -> 61 [] c = "1" -> 49 [] c = "2" -> 50
    [] OTHER -> 63

\* createHash('sha256').update(s).digest('hex').slice(0, 8): a 32-bit digest.
\* The model's digest is a positional code of the characters, which does not
\* collide on the strings of the model and stays below 2^31 (the design
\* accepts the residual collision risk of the truncated SHA-256).
RECURSIVE Sha256Hex8(_)
Sha256Hex8(s) ==
  IF s = <<>> THEN 1 ELSE CharCode(Head(s)) + 128 * Sha256Hex8(Tail(s))

\* instanceUuid.replace(/\//g, '_')
SanitizeUuid(u) == [i \in DOMAIN u |-> IF u[i] = "/" THEN "_" ELSE u[i]]

----------------------------------------------------------------------------
(* The platform: the account's users, occurrences and attendee lists *)

\* Emails, as the platform and the webhook payloads spell them
AL == <<"a", "@", "x">>
ALu == <<"A", "@", "X">>
BO == <<"b", "@", "x">>
BOu == <<"B", "@", "x">>
CA == <<"c", "@", "x">>
CAu == <<"C", "@", "x">>

Emails == {AL, ALu, BO, BOu, CA, CAu}

\* Occurrence UUIDs are base64 strings: letters, digits, '+', '/', '='
U1 == <<"u", "/", "1">>
U2 == <<"u", "+", "2">>

Uuids == {U1, U2}

NoTime == 0 - 1

\* What the platform holds about each past occurrence (GET /past_meetings/{uuid},
\* GET /report/users/{id}/meetings): times are day numbers.
PastMeeting(u) ==
  IF u = U1
    THEN [id |-> "m1", uuid |-> U1, topic |-> "standup", host_email |-> AL,
          start_time |-> 0, end_time |-> 0, duration |-> 30]
    ELSE [id |-> "m2", uuid |-> U2, topic |-> "review", host_email |-> BOu,
          start_time |-> 1, end_time |-> 1, duration |-> 45]

\* GET /past_meetings/{uuid}/participants: name and user_email (optional)
ApiParticipants(u) ==
  IF u = U1
    THEN <<[name |-> <<"B", "o", "b">>, user_email |-> BOu],
           [name |-> <<>>, user_email |-> CA],
           [name |-> <<"G">>, user_email |-> Undefined]>>
    ELSE <<[name |-> <<"A", "l">>, user_email |-> ALu]>>

\* GET /users: the active users of the account
Users ==
  <<[id |-> "ub", email |-> BOu, first_name |-> <<"B", "o", "b">>],
    [id |-> "ua", email |-> AL, first_name |-> <<>>],
    [id |-> "uc", email |-> CA, first_name |-> <<"C">>]>>

----------------------------------------------------------------------------
(* Participation ledger (utils/firestore.ts) *)

BatchSize == 500

\* A key that hashes the email as it is spelled
generateDocumentIdAsSpelled(instanceUuid, email) ==
  [uuid |-> SanitizeUuid(instanceUuid), hash |-> Sha256Hex8(email)]

\* `${sanitizedUuid}_${emailHash}`: the hash suffix has a fixed width, so the
\* concatenation determines both parts; the id is kept as the pair.
generateDocumentId(instanceUuid, email) ==
  [uuid |-> SanitizeUuid(instanceUuid), hash |-> Sha256Hex8(ToLowerCase(email))]

\* A batch that adds each record under an automatic id, collection.add(record)
RECURSIVE BatchAdd(_, _)
BatchAdd(db, chunk) ==
  IF chunk = <<>> THEN db
  ELSE LET autoId == [uuid |-> <<>>, hash |-> Cardinality(DOMAIN db)]
       IN BatchAdd([k \in DOMAIN db \cup {autoId} |->
                      IF k = autoId THEN Head(chunk) ELSE db[k]], Tail(chunk))

\* batch.set(doc(id), record) for every record of one chunk, then commit
\* (a later set of the same document replaces an earlier one)
BatchSet(db, chunk) ==
  LET docIds == SubSeq([i \in DOMAIN chunk |->
                          generateDocumentId(chunk[i].instance_uuid,
                                             chunk[i].participant_email)], 1, Len(chunk))
  IN [k \in DOMAIN db \cup {docIds[i] : i \in DOMAIN chunk} |->
        IF \E i \in DOMAIN chunk : docIds[i] = k
        THEN chunk[CHOOSE i \in DOMAIN chunk :
                     /\ docIds[i] = k
                     /\ \A j \in DOMAIN chunk : docIds[j] = k => j <= i]
        ELSE db[k]]

\* The chunk loop of createParticipantRecordsBatch: chunk number failChunk
\* (0: none) throws at commit, chunks before it stay committed.
RECURSIVE CommitChunks(_, _, _, _)
CommitChunks(db, records, k, failChunk) ==
  IF records = <<>> THEN [db |-> db, ok |-> TRUE]
  ELSE IF k = failChunk THEN [db |-> db, ok |-> FALSE]
  ELSE LET n == IF Len(records) < BatchSize THEN Len(records) ELSE BatchSize
       IN CommitChunks(BatchSet(db, SubSeq(records, 1, n)),
                       SubSeq(records, n + 1, Len(records)), k + 1, failChunk)

\* db.collection(COLLECTION_NAME).doc(docId).set(record)
createParticipantRecord(db, record) == BatchSet(db, <<record>>)

\* A createParticipantRecordsBatch that swallows the rejection of a commit
createParticipantRecordsBatchQuietly(db, records, failChunk) ==
  IF records = <<>> THEN [db |-> db, ok |-> TRUE]
  ELSE [db |-> CommitChunks(db, records, 1, failChunk).db, ok |-> TRUE]

createParticipantRecordsBatch(db, records, failChunk) ==
  CommitChunks(db, records, 1, failChunk)

participantRecordExists(db, instanceUuid, email) ==
  generateDocumentId(instanceUuid, email) \in DOMAIN db

\* A check that finds the email in any occurrence's records
checkAnyParticipation(db, instanceUuid, email) ==
  \E k \in DOMAIN db : db[k].participant_email = ToLowerCase(email)

checkParticipation(db, instanceUuid, email) ==
  participantRecordExists(db, instanceUuid, ToLowerCase(email))

----------------------------------------------------------------------------
(* JavaScript Map, in insertion order: a sequence of [key, value] *)

MapHas(m, k) == \E i \in DOMAIN m : m[i].key = k

MapGet(m, k) == m[CHOOSE i \in DOMAIN m : m[i].key = k].value

MapSet(m, k, v) ==
  IF MapHas(m, k)
    THEN [i \in DOMAIN m |-> IF m[i].key = k THEN [key |-> k, value |-> v] ELSE m[i]]
    ELSE Append(m, [key |-> k, value |-> v])

----------------------------------------------------------------------------
(* Webhook signature (utils/webhook-validation.ts) *)

Secret == "ZOOM_WEBHOOK_SECRET_TOKEN"
WrongSecret == "not the secret"

\* createHmac('sha256', key).update(message).digest('hex'): an ideal MAC, the
\* digest names its key and message.
HmacSha256(key, message) == [key |-> key, message |-> message]

Abs(n) == IF n < 0 THEN 0 - n ELSE n

\* 'v0=' + HMAC over `v0:${timestamp}:${rawBody}`
ExpectedSignature(timestampSec, rawBody, secretToken) ==
  [version |-> "v0=", digest |-> HmacSha256(secretToken, <<"v0", timestampSec, rawBody>>)]

\* A validation that compares the signature and skips the timestamp window
validateSignatureOnly(signature, timestamp, rawBody, secretToken, nowSec) ==
  IF signature = <<>> \/ timestamp = <<>> THEN FALSE
  ELSE signature[1] = ExpectedSignature(timestamp[1], rawBody, secretToken)

\* Headers are <<>> when absent and <<value>> when present; the timestamp
\* header holds seconds.
validateWebhookSignature(signature, timestamp, rawBody, secretToken, nowSec) ==
  IF signature = <<>> \/ timestamp = <<>> THEN FALSE
  ELSE IF Abs(nowSec - timestamp[1]) > FiveMinutesSec THEN FALSE
  ELSE signature[1] = ExpectedSignature(timestamp[1], rawBody, secretToken)

\* A response whose digest is keyed by the token and taken over the secret
createValidationResponseSwapped(plainToken, secretToken) ==
  [plainToken |-> plainToken, encryptedToken |-> HmacSha256(plainToken, secretToken)]

createValidationResponse(plainToken, secretToken) ==
  [plainToken |-> plainToken, encryptedToken |-> HmacSha256(secretToken, plainToken)]

----------------------------------------------------------------------------
(* processMeetingEnded (webhook-handler.ts) *)

HostName == <<"H", "o", "s", "t">>

Or(a, b) == IF a # <<>> THEN a ELSE b

\* participants.set(host_email.toLowerCase(), {..., is_host: true})
SeedHost(meeting) ==
  IF meeting.host_email # Undefined
    THEN MapSet(<<>>, ToLowerCase(meeting.host_email),
                [email |-> ToLowerCase(meeting.host_email),
                 name |-> Or(meeting.user_name, HostName),
                 is_host |-> TRUE])
    ELSE <<>>

\* for (const p of meeting.participant || []) ...
RECURSIVE AddPayloadParticipants(_, _)
AddPayloadParticipants(participants, list) ==
  IF list = <<>> THEN participants
  ELSE LET p == Head(list)
           email == ToLowerCase(p.email)
           next == IF p.email # Undefined
                     THEN MapSet(participants, email,
                            [email |-> email,
                             name |-> Or(p.user_name, LocalPart(email)),
                             is_host |-> MapHas(participants, email)
                                          /\ MapGet(participants, email).is_host])
                     ELSE participants
       IN AddPayloadParticipants(next, Tail(list))

\* A merge that leaves the authoritative list out
SkipApiParticipants(participants, list) == participants

\* for (const p of apiParticipants.participants) ...
RECURSIVE AddApiParticipants(_, _)
AddApiParticipants(participants, list) ==
  IF list = <<>> THEN participants
  ELSE LET p == Head(list)
           email == ToLowerCase(p.user_email)
           next == IF p.user_email # Undefined
                     THEN MapSet(participants, email,
                            [email |-> email,
                             name |-> Or(p.name, LocalPart(email)),
                             is_host |-> MapHas(participants, email)
                                          /\ MapGet(participants, email).is_host])
                     ELSE participants
       IN AddApiParticipants(next, Tail(list))

\* A merge in which the authoritative list replaces the payload's participants
CollectFromApiAlone(meeting, apiP) ==
  IF apiP.ok THEN AddApiParticipants(<<>>, apiP.participants)
  ELSE AddPayloadParticipants(SeedHost(meeting), meeting.participant)

\* A merge that gives up the payload's participants with the authoritative list
CollectOrGiveUp(meeting, apiP) ==
  IF apiP.ok
    THEN AddApiParticipants(AddPayloadParticipants(SeedHost(meeting), meeting.participant),
                            apiP.participants)
    ELSE <<>>

\* The participants map after the payload and the authoritative list are merged;
\* a failed getMeetingParticipants leaves the webhook data alone.
CollectParticipants(meeting, apiP) ==
  LET fromPayload == AddPayloadParticipants(SeedHost(meeting), meeting.participant)
  IN IF apiP.ok THEN AddApiParticipants(fromPayload, apiP.participants) ELSE fromPayload

\* The records of one meeting.ended event, in the Map's order
WebhookRecords(meeting, apiP, apiD, clock) ==
  LET participants == CollectParticipants(meeting, apiP)
      endTime0 == IF meeting.end_time # NoTime THEN meeting.end_time ELSE clock
      endTime == IF apiD.ok /\ apiD.meeting.end_time # NoTime
                   THEN apiD.meeting.end_time ELSE endTime0
      durationMinutes == IF apiD.ok /\ apiD.meeting.duration # 0
                           THEN apiD.meeting.duration ELSE meeting.duration
      hostEmail == IF apiD.ok /\ meeting.host_email = Undefined
                      /\ apiD.meeting.host_email # Undefined
                     THEN apiD.meeting.host_email ELSE meeting.host_email
  IN [i \in DOMAIN participants |->
       [instance_uuid |-> meeting.uuid,
        meeting_id |-> meeting.id,
        topic |-> meeting.topic,
        host_email |-> hostEmail,
        start_time |-> meeting.start_time,
        end_time |-> endTime,
        duration_minutes |-> durationMinutes,
        participant_email |-> participants[i].value.email,
        participant_name |-> participants[i].value.name,
        has_summary |-> apiD.ok,
        has_recording |-> apiD.ok,
        indexed_at |-> clock,
        source |-> "webhook"]]

----------------------------------------------------------------------------
(* Webhook deliveries *)

CaseVariant(e) ==
  CASE e = AL -> ALu [] e = ALu -> AL
    [] e = BO -> BOu [] e = BOu -> BO
    [] e = CA -> CAu [] OTHER -> CA

\* The payloads of one occurrence's meeting.ended event: the bare payload
\* (no host email, no attendee list), the full payload (host, and attendees
\* that repeat the host), and a payload that spells the host in another letter
\* case, has no end time and lists an attendee without a name and a guest
\* without an email.
PayloadShapes(u) ==
  { [host_email |-> Undefined, user_name |-> <<>>, has_end |-> TRUE,
     participant |-> <<>>],
    [host_email |-> PastMeeting(u).host_email, user_name |-> <<"N">>, has_end |-> TRUE,
     participant |-> <<[user_name |-> <<"B", "o", "b">>, email |-> BO],
                       [user_name |-> <<"A", "l">>, email |-> AL]>>],
    [host_email |-> CaseVariant(PastMeeting(u).host_email), user_name |-> <<>>,
     has_end |-> FALSE,
     participant |-> <<[user_name |-> <<>>, email |-> CAu],
                       [user_name |-> <<"G">>, email |-> Undefined]>>] }

MeetingObject(u, shape) ==
  [uuid |-> u,
   id |-> PastMeeting(u).id,
   topic |-> PastMeeting(u).topic,
   host_email |-> shape.host_email,
   user_name |-> shape.user_name,
   start_time |-> PastMeeting(u).start_time,
   end_time |-> IF shape.has_end THEN PastMeeting(u).end_time ELSE NoTime,
   duration |-> PastMeeting(u).duration,
   participant |-> shape.participant]

NoObject == [none |-> TRUE]

\* meeting.ended events of the occurrences that ended in the last days
MeetingEndedEvents(clock) ==
  UNION { { [event |-> "meeting.ended", plainToken |-> "",
             object |-> MeetingObject(u, shape)] : shape \in PayloadShapes(u) } :
          u \in {v \in Uuids : /\ PastMeeting(v).start_time <= clock
                                /\ clock <= PastMeeting(v).start_time + DeliveryDays} }

OtherEvents ==
  { [event |-> "endpoint.url_validation", plainToken |-> "tok", object |-> NoObject],
    [event |-> "endpoint.url_validation", plainToken |-> "", object |-> NoObject],
    [event |-> "meeting.started", plainToken |-> "", object |-> NoObject] }

\* The answers of the two admin-client calls of processMeetingEnded
ParticipantAnswers(event) ==
  IF event.event = "meeting.ended"
    THEN { [ok |-> FALSE, participants |-> <<>>],
           [ok |-> TRUE, participants |-> ApiParticipants(event.object.uuid)] }
    ELSE { [ok |-> TRUE, participants |-> <<>>] }

DetailAnswers(event) ==
  IF event.event = "meeting.ended"
    THEN { [ok |-> FALSE, meeting |-> PastMeeting(event.object.uuid)],
           [ok |-> TRUE, meeting |-> PastMeeting(event.object.uuid)] }
    ELSE { [ok |-> TRUE, meeting |-> PastMeeting(U1)] }

\* The headers a request arrives with: the signature and timestamp Zoom sends,
\* and the ways they go missing, stale or wrong
HeaderCases ==
  {"signed", "get", "get unsigned", "no signature", "no timestamp", "wrong secret", "other timestamp",
   "other body", "5 min old", "5 min ahead", "stale", "future"}

SkewOf(case) ==
  CASE case = "5 min old" -> 0 - FiveMinutesSec
    [] case = "5 min ahead" -> FiveMinutesSec
    [] case = "stale" -> 0 - (FiveMinutesSec + 1)
    [] case = "future" -> FiveMinutesSec + 1
    [] OTHER -> 0

TimestampHeader(case, nowSec) ==
  IF case = "no timestamp" THEN <<>> ELSE <<nowSec + SkewOf(case)>>

SignatureHeader(case, nowSec, event) ==
  CASE case = "no signature" -> <<>>
    [] case = "wrong secret" -> <<ExpectedSignature(nowSec, event, WrongSecret)>>
    [] case = "other timestamp" -> <<ExpectedSignature(nowSec - 1, event, Secret)>>
    [] case = "other body" ->
         <<ExpectedSignature(nowSec, [event EXCEPT !.plainToken = "x"], Secret)>>
    [] OTHER -> <<ExpectedSignature(nowSec + SkewOf(case), event, Secret)>>

WebhookRequest(case, nowSec, event, apiP, apiD, failChunk) ==
  [method |-> IF case \in {"get", "get unsigned"} THEN "GET" ELSE "POST",
   signature |-> IF case = "get unsigned" THEN <<>>
                 ELSE SignatureHeader(case, nowSec, event),
   timestamp |-> TimestampHeader(case, nowSec),
   body |-> event, apiP |-> apiP, apiD |-> apiD, failChunk |-> failChunk]

NoBody == [none |-> TRUE]

\* An answer that rejects an unknown event
RejectedOutcome(db) ==
  [status |-> 400, error |-> "Unknown event type", body |-> NoBody,
   db |-> db, calls |-> <<>>]

\* Unknown event type: acknowledged and ignored
IgnoredOutcome(db) ==
  [status |-> 200, error |-> "", body |-> [success |-> TRUE, ignored |-> TRUE],
   db |-> db, calls |-> <<>>]

\* handleWebhook: the whole invocation, from the method check to the response
WebhookOutcome(r, db, clock) ==
  LET event == r.body
      nowSec == clock * SecPerDay
  IN IF r.method # "POST"
       THEN [status |-> 405, error |-> "Method not allowed", body |-> NoBody,
             db |-> db, calls |-> <<>>]
     ELSE IF ~validateWebhookSignature(r.signature, r.timestamp, event, Secret, nowSec)
       THEN [status |-> 401, error |-> "Invalid signature", body |-> NoBody,
             db |-> db, calls |-> <<>>]
     ELSE IF event.event = "endpoint.url_validation"
       THEN IF event.plainToken # ""
              THEN [status |-> 200, error |-> "",
                    body |-> createValidationResponse(event.plainToken, Secret),
                    db |-> db, calls |-> <<>>]
              ELSE [status |-> 400, error |-> "Missing plainToken", body |-> NoBody,
                    db |-> db, calls |-> <<>>]
     ELSE IF event.event = "meeting.ended"
       THEN LET records == WebhookRecords(event.object, r.apiP, r.apiD, clock)
                commit == createParticipantRecordsBatch(db, records, r.failChunk)
                fetches == <<"getMeetingParticipants", "getPastMeeting">>
                made == IF records = <<>> THEN fetches ELSE Append(fetches, "batch.commit")
            IN IF commit.ok
                 THEN [status |-> 200, error |-> "", body |-> [success |-> TRUE],
                       db |-> commit.db, calls |-> made]
                 ELSE [status |-> 500, error |-> "Failed to process event", body |-> NoBody,
                       db |-> commit.db, calls |-> made]
     ELSE IgnoredOutcome(db)

\* The distinct lowercased emails of a delivery: the payload's host, the payload's
\* attendees and the fetched authoritative attendees, those without an email
\* left out
DeliveredEmails(r) ==
  LET m == r.body.object
      api == IF r.apiP.ok THEN r.apiP.participants ELSE <<>>
  IN (IF m.host_email # Undefined THEN {ToLowerCase(m.host_email)} ELSE {})
       \cup {ToLowerCase(m.participant[i].email) :
               i \in {j \in DOMAIN m.participant : m.participant[j].email # Undefined}}
       \cup {ToLowerCase(api[i].user_email) :
               i \in {j \in DOMAIN api : api[j].user_email # Undefined}}

AnyAnswers == BOOLEAN \X BOOLEAN

Healthy == {<<TRUE, TRUE>>}

\* One invocation of handleWebhook: a request with one of the header `cases`
\* carrying one of `events`, while the admin client's two calls succeed as a
\* pair of `answers` says (participants, details) and the Firestore commit
\* fails as `failChunks` allows (0: no chunk fails); `budget` bounds the
\* ingesting invocations of the behaviour.
Webhook(cases, events, answers, failChunks, budget) ==
  \E case \in cases, event \in events, failChunk \in failChunks :
  \E apiP \in ParticipantAnswers(event), apiD \in DetailAnswers(event) :
  \E answer \in {a \in {<<apiP.ok, apiD.ok>>} : a \in answers} :
  \E r \in {WebhookRequest(case, now * SecPerDay, event, apiP, apiD, failChunk)} :
  \E out \in {WebhookOutcome(r, ledger, now)} :
    LET processing == "getPastMeeting" \in {out.calls[i] : i \in DOMAIN out.calls}
    IN /\ processing => writes < budget
       /\ writes' = IF processing THEN writes + 1 ELSE writes
       /\ ledger' = out.db
       /\ attended' = IF processing /\ out.status = 200
                         THEN attended \cup {[uuid |-> event.object.uuid, email |-> e] :
                                               e \in DeliveredEmails(r)}
                         ELSE attended
       /\ repeated' = (/\ processing /\ out.status = 200
                       /\ req.op = "webhook" /\ resp.status = 200
                       /\ req.in.body = event /\ req.in.apiP = apiP /\ req.in.apiD = apiD)
       /\ req' = [op |-> "webhook", at |-> now, in |-> r]
       /\ resp' = [status |-> out.status, error |-> out.error, body |-> out.body]
       /\ calls' = out.calls
       /\ UNCHANGED <<now, ticks>>
       /\ UNCHANGED <<adminVars, fetchVars, inflight, authVars>>

\* Zoom's deliveries: every event, correctly signed, whatever the admin client
\* answers
HandleWebhook ==
  Webhook({"signed"}, MeetingEndedEvents(now) \cup OtherEvents, AnyAnswers, {0}, MaxWrites)

----------------------------------------------------------------------------
(* Retention sweeper (cleanup.ts, deleteOldRecords) *)

DeleteLimit == 500

Restrict(f, keys) == [k \in keys |-> f[k]]

\* String order of two same-length strings, by code unit
RECURSIVE StringLess(_, _)
StringLess(a, b) ==
  IF a = <<>> \/ b = <<>> THEN a = <<>> /\ b # <<>>
  ELSE IF CharCode(Head(a)) # CharCode(Head(b)) THEN CharCode(Head(a)) < CharCode(Head(b))
  ELSE StringLess(Tail(a), Tail(b))

\* The order of a query filtered on start_time: by start_time, ties by
\* document id, ascending
QueryBefore(x, y) ==
  \/ x.start_time < y.start_time
  \/ /\ x.start_time = y.start_time
     /\ IF x.id.uuid = y.id.uuid THEN x.id.hash < y.id.hash
        ELSE StringLess(x.id.uuid, y.id.uuid)

\* where('start_time', '<', cutoffIso)
OlderThan(db, cutoff) == {k \in DOMAIN db : db[k].start_time < cutoff}

\* A page that holds every matching document
QueryUnlimited(db, cutoff) == OlderThan(db, cutoff)

\* where('start_time', '<', cutoffIso).limit(500).get(): the first 500 matches
QueryPage(db, cutoff) ==
  UNION { IF Cardinality(docs) <= DeleteLimit THEN {x.id : x \in docs}
          ELSE {x.id : x \in {y \in docs :
                                Cardinality({z \in docs : QueryBefore(z, y)}) < DeleteLimit}} :
          docs \in {{[start_time |-> db[k].start_time, id |-> k] :
                       k \in OlderThan(db, cutoff)}} }

\* The while loop of deleteOldRecords: each pass reads up to 500 documents with
\* start_time < cutoff, deletes them in one batch and stops at an empty or a
\* short page.
RECURSIVE DeleteLoop(_, _, _)
DeleteLoop(db, cutoff, totalDeleted) ==
  LET page == QueryPage(db, cutoff)
      rest == Restrict(db, DOMAIN db \ page)
  IN IF page = {} THEN [db |-> db, deleted |-> totalDeleted]
     ELSE IF Cardinality(page) < DeleteLimit
       THEN [db |-> rest, deleted |-> totalDeleted + Cardinality(page)]
     ELSE DeleteLoop(rest, cutoff, totalDeleted + Cardinality(page))

\* A sweep that also takes the records that start at the cutoff
deleteThroughCutoff(db, cutoff) == DeleteLoop(db, cutoff + 1, 0)

deleteOldRecords(db, cutoff) == DeleteLoop(db, cutoff, 0)

\* handleCleanup: the ledger query may fail, which is answered 500
HandleCleanup ==
  \E fails \in BOOLEAN :
  \E out \in {deleteOldRecords(ledger, now - RETENTION_DAYS)} :
    /\ ledger' = IF fails THEN ledger ELSE out.db
    /\ attended' = IF fails THEN attended
                   ELSE {p \in attended : PastMeeting(p.uuid).start_time >= now - RETENTION_DAYS}
    /\ req' = [op |-> "cleanup", at |-> now, in |-> [fails |-> fails]]
    /\ resp' = IF fails
                 THEN [status |-> 500, error |-> "Cleanup failed", body |-> NoBody]
                 ELSE [status |-> 200, error |-> "",
                       body |-> [success |-> TRUE, deleted |-> out.deleted,
                                 cutoff_date |-> now - RETENTION_DAYS]]
    /\ calls' = <<"deleteOldRecords">>
    /\ repeated' = FALSE
    /\ UNCHANGED <<now, ticks, writes>>
    /\ UNCHANGED <<adminVars, fetchVars, inflight, authVars>>

----------------------------------------------------------------------------
(* Historical backfill (scripts/backfill.ts) *)

WindowDays == 29

\* getUserMeetings: the date windows requested for from..to
RECURSIVE ReportWindows(_, _)
ReportWindows(currentFrom, to) ==
  IF currentFrom < to
    THEN LET currentTo == IF currentFrom + WindowDays < to THEN currentFrom + WindowDays ELSE to
         IN <<[from |-> currentFrom, to |-> currentTo]>> \o ReportWindows(currentTo + 1, to)
    ELSE <<>>

\* GET /report/users/{id}/meetings: the past occurrences the user hosted that
\* started within the window, oldest first
ReportMeetings(user, window, clock) ==
  LET hosted(u) == /\ ToLowerCase(PastMeeting(u).host_email) = ToLowerCase(user.email)
                   /\ PastMeeting(u).start_time <= clock
                   /\ window.from <= PastMeeting(u).start_time
                   /\ PastMeeting(u).start_time <= window.to
  IN (IF hosted(U1) THEN <<PastMeeting(U1)>> ELSE <<>>)
       \o (IF hosted(U2) THEN <<PastMeeting(U2)>> ELSE <<>>)

DigitValue(c) ==
  CASE c = "0" -> 0 [] c = "1" -> 1 [] c = "2" -> 2 [] c = "3" -> 3 [] c = "4" -> 4
    [] c = "5" -> 5 [] c = "6" -> 6 [] c = "7" -> 7 [] c = "8" -> 8 [] c = "9" -> 9
    [] OTHER -> 0 - 1

RECURSIVE ParseDigits(_, _)
ParseDigits(s, acc) ==
  IF s = <<>> \/ DigitValue(Head(s)) < 0 THEN acc
  ELSE ParseDigits(Tail(s), 10 * acc + DigitValue(Head(s)))

\* parseInt(s, 10): an optional sign and the leading digits, NaN without a digit
ParseInt(s) ==
  LET negative == s # <<>> /\ Head(s) = "-"
      digits == IF negative THEN Tail(s) ELSE s
  IN IF digits = <<>> \/ DigitValue(Head(digits)) < 0
       THEN [nan |-> TRUE, value |-> 0]
       ELSE [nan |-> FALSE,
             value |-> IF negative THEN 0 - ParseDigits(digits, 0) ELSE ParseDigits(digits, 0)]

\* The requests of the importer, by what they ask for
UsersRequest == [kind |-> "getAllUsers", who |-> <<>>, window |-> 0]

MeetingsRequest(user, window) ==
  [kind |-> "getUserMeetings", who |-> user.email, window |-> window.from]

ParticipantsRequest(instanceUuid) ==
  [kind |-> "getMeetingParticipants", who |-> instanceUuid, window |-> 0]

CommitOf(instanceUuid) == [kind |-> "batch.commit", who |-> instanceUuid, window |-> 0]

\* parseInt(response.headers.get('Retry-After') || '5', 10), as the delay of
\* the timer: setTimeout takes a delay that is no number as none
RetryAfterSeconds(header) ==
  LET seconds == ParseInt(IF header = <<>> THEN <<"5">> ELSE header)
  IN IF seconds.nan \/ seconds.value < 0 THEN 0 ELSE seconds.value

\* A fetch that hands a 429 to its caller
fetchOnce(request, throttles, answer) ==
  IF throttles = <<>> THEN [status |-> answer, issued |-> <<request>>, waited |-> <<>>]
  ELSE [status |-> 429, issued |-> <<request>>, waited |-> <<>>]

\* rateLimitedFetch, from the call to its return: `throttles` are the
\* Retry-After headers of the 429 responses the platform gives before it
\* answers `answer`; issued are the requests sent, waited the seconds slept
RECURSIVE rateLimitedFetch(_, _, _)
rateLimitedFetch(request, throttles, answer) ==
  IF throttles = <<>> THEN [status |-> answer, issued |-> <<request>>, waited |-> <<>>]
  ELSE LET again == rateLimitedFetch(request, Tail(throttles), answer)
       IN [status |-> again.status, issued |-> <<request>> \o again.issued,
           waited |-> <<RetryAfterSeconds(Head(throttles))>> \o again.waited]

\* The 429 responses a run's schedule gives a request
ThrottlesOf(request, in) ==
  IF request \in in.throttled THEN <<in.retryAfter>> ELSE <<>>

\* getUserMeetings: a window whose request fails contributes no meetings
RECURSIVE getUserMeetings(_, _, _, _)
getUserMeetings(user, windows, clock, in) ==
  IF windows = <<>> THEN [meetings |-> <<>>, issued |-> <<>>, waited |-> <<>>]
  ELSE LET request == MeetingsRequest(user, Head(windows))
           response == rateLimitedFetch(request, ThrottlesOf(request, in), 200)
           rest == getUserMeetings(user, Tail(windows), clock, in)
       IN [meetings |-> (IF response.status = 200
                           THEN ReportMeetings(user, Head(windows), clock) ELSE <<>>)
                          \o rest.meetings,
           issued |-> response.issued \o rest.issued,
           waited |-> response.waited \o rest.waited]

\* a.localeCompare(b) <= 0: letter by letter, letter case aside
RECURSIVE LocaleLeq(_, _)
LocaleLeq(a, b) ==
  IF a = <<>> THEN TRUE
  ELSE IF b = <<>> THEN FALSE
  ELSE LET x == CharCode(ToLowerChar(Head(a)))
           y == CharCode(ToLowerChar(Head(b)))
       IN IF x < y THEN TRUE
          ELSE IF x > y THEN FALSE
          ELSE LocaleLeq(Tail(a), Tail(b))

\* users.sort((a, b) => a.email.localeCompare(b.email))
RECURSIVE SortUsers(_)
SortUsers(users) ==
  IF users = <<>> THEN <<>>
  ELSE LET least == CHOOSE i \in DOMAIN users : \A j \in DOMAIN users :
                      LocaleLeq(users[i].email, users[j].email)
       IN <<users[least]>>
            \o SortUsers([i \in 1..(Len(users) - 1) |->
                            IF i < least THEN users[i] ELSE users[i + 1]])

RECURSIVE AddBackfillParticipants(_, _)
AddBackfillParticipants(participantMap, list) ==
  IF list = <<>> THEN participantMap
  ELSE LET p == Head(list)
           email == ToLowerCase(p.user_email)
           next == IF p.user_email # Undefined
                     THEN MapSet(participantMap, email,
                            [email |-> email, name |-> Or(p.name, LocalPart(email))])
                     ELSE participantMap
       IN AddBackfillParticipants(next, Tail(list))

\* The records the backfill builds for one hosted occurrence
BackfillRecords(user, meeting, participants, clock) ==
  LET seeded == IF meeting.host_email # Undefined
                  THEN MapSet(<<>>, ToLowerCase(meeting.host_email),
                         [email |-> ToLowerCase(meeting.host_email),
                          name |-> Or(user.first_name, LocalPart(meeting.host_email))])
                  ELSE <<>>
  IN [i \in DOMAIN AddBackfillParticipants(seeded, participants) |->
       LET participant == AddBackfillParticipants(seeded, participants)[i].value
       IN [instance_uuid |-> meeting.uuid,
           meeting_id |-> meeting.id,
           topic |-> meeting.topic,
           host_email |-> meeting.host_email,
           start_time |-> meeting.start_time,
           end_time |-> meeting.end_time,
           duration_minutes |-> meeting.duration,
           participant_email |-> participant.email,
           participant_name |-> participant.name,
           has_summary |-> TRUE,
           has_recording |-> TRUE,
           indexed_at |-> clock,
           source |-> "backfill"]]

\* A createRecords that writes in a dry run too
createRecordsAlways(db, records, dryRun, failChunk) ==
  IF records = <<>> THEN [db |-> db, ok |-> TRUE]
  ELSE CommitChunks(db, records, 1, failChunk)

\* createRecords: nothing is written in a dry run
createRecords(db, records, dryRun, failChunk) ==
  IF records = <<>> \/ dryRun THEN [db |-> db, ok |-> TRUE]
  ELSE CommitChunks(db, records, 1, failChunk)

\* The meetings loop of one user.  listOk: whether the participants call of
\* each occurrence succeeds (a failed call yields the empty list).
RECURSIVE BackfillMeetings(_, _, _, _, _, _)
BackfillMeetings(db, user, meetings, in, clock, made) ==
  IF meetings = <<>> THEN [db |-> db, ok |-> TRUE, issued |-> made.issued,
                           waited |-> made.waited]
  ELSE LET meeting == Head(meetings)
           request == ParticipantsRequest(meeting.uuid)
           response == rateLimitedFetch(request, ThrottlesOf(request, in),
                                        IF in.listOk THEN 200 ELSE 500)
           participants == IF response.status = 200 THEN ApiParticipants(meeting.uuid)
                           ELSE <<>>
           records == BackfillRecords(user, meeting, participants, clock)
           written == createRecords(db, records, in.dryRun, in.failChunk)
           commits == IF records = <<>> \/ in.dryRun THEN <<>> ELSE <<CommitOf(meeting.uuid)>>
           made2 == [issued |-> made.issued \o response.issued \o commits,
                     waited |-> made.waited \o response.waited]
       IN IF ~written.ok THEN [db |-> written.db, ok |-> FALSE, issued |-> made2.issued,
                               waited |-> made2.waited]
          ELSE BackfillMeetings(written.db, user, Tail(meetings), in, clock, made2)

\* The users loop of backfill(fromDate, toDate, dryRun)
RECURSIVE BackfillUsers(_, _, _, _, _)
BackfillUsers(db, users, in, clock, made) ==
  IF users = <<>> THEN [db |-> db, ok |-> TRUE, issued |-> made.issued,
                        waited |-> made.waited]
  ELSE LET windows == ReportWindows(in.from, in.to)
           hosted == getUserMeetings(Head(users), windows, clock, in)
           made2 == [issued |-> made.issued \o hosted.issued,
                     waited |-> made.waited \o hosted.waited]
           done == BackfillMeetings(db, Head(users), hosted.meetings, in, clock, made2)
       IN IF ~done.ok THEN done
          ELSE BackfillUsers(done.db, Tail(users), in, clock,
                             [issued |-> done.issued, waited |-> done.waited])

\* backfill(fromDate, toDate, dryRun): the run ends with an error when the
\* users cannot be listed
backfill(db, in, clock) ==
  LET response == rateLimitedFetch(UsersRequest, ThrottlesOf(UsersRequest, in), 200)
  IN IF response.status # 200
       THEN [db |-> db, ok |-> FALSE, issued |-> response.issued, waited |-> response.waited]
       ELSE BackfillUsers(db, SortUsers(Users), in, clock,
                          [issued |-> response.issued, waited |-> response.waited])

\* The names of the calls of a run, in order
KindsOf(sent) == [i \in DOMAIN sent |-> sent[i].kind]

\* The date ranges the importer is run over
BackfillRanges == { <<0, 0>>, <<0, 1>>, <<1, 31>> }

\* One run of the backfill script
Backfill ==
  \E range \in BackfillRanges, dryRun \in BOOLEAN, listOk \in BOOLEAN,
     failChunk \in {f \in {0, 1} : writes < MaxWrites} :
  \E in \in {[from |-> range[1], to |-> range[2], dryRun |-> dryRun, listOk |-> listOk,
              failChunk |-> failChunk, throttled |-> {}, retryAfter |-> <<>>] :
                x \in {y \in {0} : failChunk = 0 \/ (listOk /\ ~dryRun)}} :
  \E out \in {backfill(ledger, in, now)} :
    /\ writes' = writes + 1
    /\ ledger' = out.db
    /\ req' = [op |-> "backfill", at |-> now, in |-> in]
    /\ resp' = [status |-> IF out.ok THEN 0 ELSE 1,
                error |-> IF out.ok THEN "" ELSE "Backfill failed", body |-> NoBody]
    /\ calls' = KindsOf(out.issued)
    /\ repeated' = (out.ok /\ req.op = "backfill" /\ resp.status = 0 /\ req.in = in)
    /\ UNCHANGED <<now, ticks, attended>>
    /\ UNCHANGED <<adminVars, fetchVars, inflight, authVars>>

\* The Retry-After headers of the platform's 429 responses: none, seconds
RetryAfterHeaders == {<<>>, <<"2">>}

\* rateLimitedFetch step by step: one call of the importer at a time, from its
\* entry to its return.  pc: where the call stands; sent: the request last
\* handed to fetch(); header, timer: the Retry-After header of the last 429 and
\* the seconds of the timer set for it; status: the status of the response
\* returned.  The pacing delay before a request (REQUEST_INTERVAL) only
\* postpones the request.
NoRequest == [kind |-> "", who |-> <<>>, window |-> 0]

NoFetch ==
  [pc |-> "idle", url |-> NoRequest, sent |-> NoRequest, header |-> <<>>, timer |-> 0,
   retried |-> FALSE, status |-> 0]

\* A call that returns whatever the platform answered
ReturnResponse(f, status, header) == [f EXCEPT !.pc = "returned", !.status = status]

\* What rateLimitedFetch does with a response
OnResponse(f, status, header) ==
  IF status = 429
    THEN [f EXCEPT !.pc = "waiting", !.header = header,
                   !.timer = RetryAfterSeconds(header), !.retried = TRUE]
    ELSE [f EXCEPT !.pc = "returned", !.status = status]

\* A caller awaits rateLimitedFetch(url)
CallFetch ==
  /\ fetch.pc = "idle"
  /\ \E url \in {UsersRequest} \cup {ParticipantsRequest(u) : u \in Uuids} :
       fetch' = [NoFetch EXCEPT !.pc = "entered", !.url = url]
  /\ UNCHANGED throttling
  /\ UNCHANGED <<proxyVars, adminVars, inflight, authVars>>

\* if (elapsed < REQUEST_INTERVAL) await the rest of the interval
Pace ==
  /\ fetch.pc = "entered"
  /\ fetch' = [fetch EXCEPT !.pc = "paced"]
  /\ UNCHANGED throttling
  /\ UNCHANGED <<proxyVars, adminVars, inflight, authVars>>

\* fetch(url, ...): the request goes out
Issue ==
  /\ fetch.pc \in {"entered", "paced"}
  /\ fetch' = [fetch EXCEPT !.pc = "sending", !.sent = fetch.url]
  /\ UNCHANGED throttling
  /\ UNCHANGED <<proxyVars, adminVars, inflight, authVars>>

\* The platform answers: 429 while it throttles
Respond ==
  /\ fetch.pc = "sending"
  /\ \E status \in IF throttling THEN {429} ELSE {200, 404, 500} :
     \E header \in IF status = 429 THEN RetryAfterHeaders ELSE {<<>>} :
       fetch' = OnResponse(fetch, status, header)
  /\ UNCHANGED throttling
  /\ UNCHANGED <<proxyVars, adminVars, inflight, authVars>>

\* The timer of the 429 fires: return rateLimitedFetch(url, options)
Retry ==
  /\ fetch.pc = "waiting"
  /\ fetch' = [fetch EXCEPT !.pc = "entered"]
  /\ UNCHANGED throttling
  /\ UNCHANGED <<proxyVars, adminVars, inflight, authVars>>

\* The caller takes the response
ReturnFetch ==
  /\ fetch.pc = "returned"
  /\ fetch' = NoFetch
  /\ UNCHANGED throttling
  /\ UNCHANGED <<proxyVars, adminVars, inflight, authVars>>

\* The platform starts or stops throttling the account
Throttle ==
  /\ throttling' = ~throttling
  /\ UNCHANGED fetch
  /\ UNCHANGED <<proxyVars, adminVars, inflight, authVars>>

\* The requests of a run over the days 0..1
ImportRequests ==
  {UsersRequest}
    \cup {MeetingsRequest(Users[i], [from |-> 0, to |-> 1]) : i \in DOMAIN Users}
    \cup {ParticipantsRequest(u) : u \in Uuids}

\* The runs of the importer while the platform throttles some of its requests
ImportRuns ==
  { [from |-> 0, to |-> 1, dryRun |-> FALSE, listOk |-> TRUE, failChunk |-> 0,
     throttled |-> throttled, retryAfter |-> retryAfter] :
      throttled \in SUBSET ImportRequests,
      retryAfter \in RetryAfterHeaders }

\* The runs in which the platform throttles every request or none
WholeRuns == {r \in ImportRuns : r.throttled \in {{}, ImportRequests}}

\* One run of the backfill script against a platform that throttles
ImportRun(runs) ==
  /\ writes < MaxDeliveries
  /\ \E in \in runs :
     \E out \in {backfill(ledger, in, now)} :
    /\ writes' = writes + 1
    /\ ledger' = out.db
    /\ req' = [op |-> "backfill", at |-> now, in |-> in]
    /\ resp' = [status |-> IF out.ok THEN 0 ELSE 1,
                error |-> IF out.ok THEN "" ELSE "Backfill failed",
                body |-> [issued |-> out.issued, waited |-> out.waited]]
    /\ calls' = KindsOf(out.issued)
    /\ repeated' = FALSE
    /\ UNCHANGED <<now, ticks, attended>>
    /\ UNCHANGED <<adminVars, fetchVars, inflight, authVars>>

----------------------------------------------------------------------------
(* Callers of the proxy (utils/validate-token.ts) *)

DA == <<"d", "@", "x">>

\* GET /users/me with the caller's token: Al and Bo are members, Ca is an
\* admin, Da the account owner; Zoom accepts no other token.
\* Tokens of further users, by the role_id /users/me reports for them; the
\* empty one stands for a response without role_id
ReportedRole ==
  [t \in {"t-r", "t-r0", "t-r1", "t-r2", "t-r10", "t-r-1", "t-r-", "t-rx", "t-r1x"} |->
     CASE t = "t-r" -> <<>>
       [] t = "t-r0" -> <<"0">>
       [] t = "t-r1" -> <<"1">>
       [] t = "t-r2" -> <<"2">>
       [] t = "t-r10" -> <<"1", "0">>
       [] t = "t-r-1" -> <<"-", "1">>
       [] t = "t-r-" -> <<"-">>
       [] t = "t-rx" -> <<"x">>
       [] t = "t-r1x" -> <<"1", "x">>]

UsersMe(token) ==
  CASE token \in DOMAIN ReportedRole ->
         [status |-> 200, email |-> DA, role_id |-> ReportedRole[token]]
    [] token = "t-al" -> [status |-> 200, email |-> ALu, role_id |-> <<"2">>]
    [] token = "t-bo" -> [status |-> 200, email |-> BO, role_id |-> <<"2">>]
    [] token = "t-ca" -> [status |-> 200, email |-> CA, role_id |-> <<"1">>]
    [] token = "t-da" -> [status |-> 200, email |-> DA, role_id |-> <<"0">>]
    [] OTHER -> [status |-> 401, email |-> Undefined, role_id |-> <<>>]

NoUser == [ok |-> FALSE, email |-> Undefined, role_id |-> [nan |-> TRUE, value |-> 0],
           isAdmin |-> FALSE]

\* validateUserToken: ok is FALSE where the function throws
validateUserToken(token) ==
  LET response == UsersMe(token)
      roleId == ParseInt(response.role_id)
  IN IF response.status # 200 THEN NoUser
     ELSE [ok |-> TRUE, email |-> response.email, role_id |-> roleId,
           isAdmin |-> ~roleId.nan /\ roleId.value <= 1]

NoToken == ""

LowerWord(w) == IF w \in {"Bearer", "BEARER", "bearer"} THEN "bearer" ELSE w

\* extractBearerToken: the header is the list of its space-separated parts
extractBearerToken(authHeader) ==
  IF authHeader = <<>> THEN NoToken
  ELSE IF Len(authHeader) # 2 \/ LowerWord(authHeader[1]) # "bearer" THEN NoToken
  ELSE authHeader[2]

\* An opening that keeps the user an earlier admin request validated
AuthenticateFromCache(authorization) ==
  LET token == extractBearerToken(authorization)
      userInfo == validateUserToken(token)
  IN IF token = NoToken
       THEN [status |-> 401, error |-> "Missing Authorization header", user |-> NoUser,
             calls |-> <<>>]
     ELSE IF ~userInfo.ok
       THEN [status |-> 401, error |-> "Invalid or expired token", user |-> NoUser,
             calls |-> <<"validateUserToken">>]
     ELSE [status |-> 200, error |-> "", user |-> validateUserToken("t-ca"),
           calls |-> <<"validateUserToken">>]

\* The opening of every proxy handler: the bearer token is extracted and
\* validated against Zoom
AuthenticateCaller(authorization) ==
  LET token == extractBearerToken(authorization)
      userInfo == validateUserToken(token)
  IN IF token = NoToken
       THEN [status |-> 401, error |-> "Missing Authorization header", user |-> NoUser,
             calls |-> <<>>]
     ELSE IF ~userInfo.ok
       THEN [status |-> 401, error |-> "Invalid or expired token", user |-> NoUser,
             calls |-> <<"validateUserToken">>]
     ELSE [status |-> 200, error |-> "", user |-> userInfo,
           calls |-> <<"validateUserToken">>]

\* The Authorization headers requests arrive with
AuthHeaders ==
  { <<>>, <<"Basic", "t-al">>, <<"Bearer", "t-expired">>,
    <<"Bearer", "t-al">>, <<"bearer", "t-bo">>, <<"Bearer", "t-ca">>, <<"Bearer", "t-da">> }

----------------------------------------------------------------------------
(* Content endpoints (get-summary.ts, get-transcript.ts) *)

\* GET /meetings/{uuid}/meeting_summary, when the platform has the summary
SummaryOf(u) == [meeting_uuid |-> u, summary_overview |-> PastMeeting(u).topic]

\* The transcript file of an occurrence's recording, line by line
VttOf(u) ==
  IF u = U1
    THEN <<[kind |-> "skip", speaker |-> "", text |-> "WEBVTT"],
           [kind |-> "skip", speaker |-> "", text |-> ""],
           [kind |-> "skip", speaker |-> "", text |-> "1"],
           [kind |-> "skip", speaker |-> "", text |-> "00:00 --> 00:05"],
           [kind |-> "voice", speaker |-> "Al", text |-> "hi"],
           [kind |-> "voice", speaker |-> "Al", text |-> "all"],
           [kind |-> "colon", speaker |-> "Bob", text |-> "yes"],
           [kind |-> "plain", speaker |-> "", text |-> "ok"]>>
    ELSE <<[kind |-> "skip", speaker |-> "", text |-> "WEBVTT"],
           [kind |-> "plain", speaker |-> "", text |-> "hello"],
           [kind |-> "plain", speaker |-> "", text |-> "hello"]>>

\* The loop of parseVttToText over the lines: header, cue numbers, timings and
\* blank lines are skipped; "<v Name>text" and "Name: text" lines carry a
\* speaker.  A text line is the list of its pieces.
RECURSIVE ParseVttLines(_, _, _, _)
ParseVttLines(lines, textLines, currentSpeaker, lastText) ==
  IF lines = <<>> THEN textLines
  ELSE LET line == Head(lines)
           rest == Tail(lines)
           n == Len(textLines)
       IN CASE line.kind = "skip" ->
                 ParseVttLines(rest, textLines, currentSpeaker, lastText)
            [] line.kind = "voice" ->
                 IF line.speaker # currentSpeaker
                   THEN IF line.text # ""
                          THEN ParseVttLines(rest,
                                 Append(textLines, <<line.speaker, ": ", line.text>>),
                                 line.speaker, line.text)
                          ELSE ParseVttLines(rest, textLines, line.speaker, lastText)
                 ELSE IF line.text # "" /\ line.text # lastText
                   THEN IF n > 0 /\ Len(textLines[n]) >= 2 /\ textLines[n][1] = line.speaker
                             /\ textLines[n][2] = ": "
                          THEN ParseVttLines(rest,
                                 [textLines EXCEPT ![n] = @ \o <<" ", line.text>>],
                                 currentSpeaker, line.text)
                          ELSE ParseVttLines(rest, Append(textLines, <<line.text>>),
                                 currentSpeaker, line.text)
                 ELSE ParseVttLines(rest, textLines, currentSpeaker, lastText)
            [] line.kind = "colon" ->
                 IF line.speaker # "" /\ line.text # "" /\ line.speaker # currentSpeaker
                   THEN ParseVttLines(rest,
                          Append(textLines, <<line.speaker, ": ", line.text>>),
                          line.speaker, line.text)
                 ELSE IF line.text # "" /\ line.text # lastText
                   THEN ParseVttLines(rest,
                          Append(textLines, <<line.speaker, ": ", line.text>>),
                          currentSpeaker, line.text)
                 ELSE ParseVttLines(rest, textLines, currentSpeaker, lastText)
            [] OTHER ->
                 IF line.text # lastText
                   THEN ParseVttLines(rest, Append(textLines, <<line.text>>),
                          currentSpeaker, line.text)
                   ELSE ParseVttLines(rest, textLines, currentSpeaker, lastText)

parseVttToText(vttContent) == ParseVttLines(vttContent, <<>>, "", "")

\* The transcript built from the AI summary
SummaryTranscript(summary) == <<<<"## Overview">>, <<summary.summary_overview>>>>

\* `Failed to get ...: ${status} - ${errorText}` names '404' or 'not found'
MentionsNotFound(status, errorText) ==
  status = 404 \/ errorText \in {"404", "not found"}

\* A check that holds admins to the participation check too
EveryoneNeedsParticipation(userInfo) == TRUE

\* if (!userInfo.isAdmin): admins skip the participation check
NeedsParticipation(userInfo) == ~userInfo.isAdmin

Reply(status, error, made) ==
  [status |-> status, error |-> error, body |-> NoBody, calls |-> made]

\* The fetch of handleGetSummary with admin credentials, and its error mapping
FetchSummary(r, made) ==
  IF r.summary = 200
    THEN [status |-> 200, error |-> "", body |-> [summary |-> SummaryOf(r.instance_uuid)],
          calls |-> Append(made, "getMeetingSummary")]
  ELSE IF MentionsNotFound(r.summary, r.summaryText)
    THEN Reply(404, "Summary not available for this meeting",
               Append(made, "getMeetingSummary"))
  ELSE Reply(500, "Failed to fetch summary", Append(made, "getMeetingSummary"))

\* A handler that validates the parameters before the caller
GetSummaryParamsFirst(r, db) ==
  LET auth == AuthenticateCaller(r.authorization)
      checked == IF NeedsParticipation(auth.user)
                   THEN Append(auth.calls, "checkParticipation") ELSE auth.calls
  IN IF r.instance_uuid = Undefined THEN Reply(400, "Missing instance_uuid", <<>>)
     ELSE IF auth.status # 200 THEN Reply(auth.status, auth.error, auth.calls)
     ELSE IF /\ NeedsParticipation(auth.user)
             /\ ~checkParticipation(db, r.instance_uuid, auth.user.email)
       THEN Reply(403, "Access denied. You did not participate in this meeting.", checked)
     ELSE FetchSummary(r, checked)

\* A handler that asks the platform for the summary before it checks the
\* caller's participation
GetSummaryLookupFirst(r, db) ==
  LET auth == AuthenticateCaller(r.authorization)
      checked == IF NeedsParticipation(auth.user)
                   THEN Append(auth.calls, "checkParticipation") ELSE auth.calls
      fetched == FetchSummary(r, auth.calls)
  IN IF auth.status # 200 THEN Reply(auth.status, auth.error, auth.calls)
     ELSE IF r.instance_uuid = Undefined
       THEN Reply(400, "Missing instance_uuid", auth.calls)
     ELSE IF fetched.status # 200 THEN fetched
     ELSE IF /\ NeedsParticipation(auth.user)
             /\ ~checkParticipation(db, r.instance_uuid, auth.user.email)
       THEN Reply(403, "Access denied. You did not participate in this meeting.",
                  Append(fetched.calls, "checkParticipation"))
     ELSE fetched

\* handleGetSummary
GetSummaryOutcome(r, db) ==
  LET auth == AuthenticateCaller(r.authorization)
      checked == IF NeedsParticipation(auth.user)
                   THEN Append(auth.calls, "checkParticipation") ELSE auth.calls
  IN IF auth.status # 200 THEN Reply(auth.status, auth.error, auth.calls)
     ELSE IF r.instance_uuid = Undefined
       THEN Reply(400, "Missing instance_uuid", auth.calls)
     ELSE IF /\ NeedsParticipation(auth.user)
             /\ ~checkParticipation(db, r.instance_uuid, auth.user.email)
       THEN Reply(403, "Access denied. You did not participate in this meeting.", checked)
     ELSE FetchSummary(r, checked)

\* The fallback of handleGetTranscript to the AI summary
FetchSummaryTranscript(r, made) ==
  IF r.summary = 200
    THEN [status |-> 200, error |-> "",
          body |-> [transcript |-> SummaryTranscript(SummaryOf(r.instance_uuid)),
                    source |-> "ai_summary"],
          calls |-> Append(made, "getMeetingSummary")]
  ELSE IF MentionsNotFound(r.summary, r.summaryText)
    THEN Reply(404, "Transcript not available for this meeting",
               Append(made, "getMeetingSummary"))
  ELSE Reply(500, "Failed to fetch transcript", Append(made, "getMeetingSummary"))

\* A handler that goes to the summary without trying the recording
FetchSummaryOnly(r, made) == FetchSummaryTranscript(r, made)

\* The recording branch of handleGetTranscript: any failure in it falls back
FetchTranscript(r, made) ==
  LET listed == Append(made, "getMeetingRecordings")
      downloaded == Append(listed, "downloadTranscript")
  IN IF r.recordings.status = 200 /\ r.recordings.transcript
       THEN IF r.download = 200
              THEN [status |-> 200, error |-> "",
                    body |-> [transcript |-> parseVttToText(VttOf(r.instance_uuid)),
                              source |-> "recording"],
                    calls |-> downloaded]
              ELSE FetchSummaryTranscript(r, downloaded)
       ELSE FetchSummaryTranscript(r, listed)

\* handleGetTranscript
GetTranscriptOutcome(r, db) ==
  LET auth == AuthenticateCaller(r.authorization)
      checked == IF NeedsParticipation(auth.user)
                   THEN Append(auth.calls, "checkParticipation") ELSE auth.calls
  IN IF auth.status # 200 THEN Reply(auth.status, auth.error, auth.calls)
     ELSE IF r.instance_uuid = Undefined
       THEN Reply(400, "Missing instance_uuid", auth.calls)
     ELSE IF /\ NeedsParticipation(auth.user)
             /\ ~checkParticipation(db, r.instance_uuid, auth.user.email)
       THEN Reply(403, "Access denied. You did not participate in this meeting.", checked)
     ELSE FetchTranscript(r, checked)

\* What the platform answers the admin client: the HTTP status of the summary
\* and download calls, and whether the recording lists a transcript file
UpstreamStatuses == {200, 404, 500}

RecordingAnswers ==
  { [status |-> 200, transcript |-> TRUE], [status |-> 200, transcript |-> FALSE],
    [status |-> 404, transcript |-> FALSE], [status |-> 500, transcript |-> FALSE] }

\* The text of an error response of the platform, as far as the handlers look
\* at it
ErrorTexts == {"", "not found"}

\* The requests to a content endpoint; the platform's answers vary where the
\* handler can come to ask for them
ContentRequests ==
  UNION { { [authorization |-> authorization, instance_uuid |-> instance_uuid,
             summary |-> 200, summaryText |-> "",
             recordings |-> [status |-> 200, transcript |-> TRUE],
             download |-> 200] :
              instance_uuid \in IF AuthenticateCaller(authorization).status = 200
                                  THEN Uuids \cup {Undefined} ELSE {U1} } :
          authorization \in AuthHeaders }

Answerable(r, db) ==
  /\ r.instance_uuid # Undefined
  /\ "getMeetingSummary" \in {GetSummaryOutcome(r, db).calls[i] :
                                i \in DOMAIN GetSummaryOutcome(r, db).calls}

GetSummary(requests, statuses, texts) ==
  \E r0 \in requests :
  \E summary \in IF Answerable(r0, ledger) THEN statuses ELSE {r0.summary} :
  \E summaryText \in IF summary # 200 THEN texts ELSE {""} :
  \E r \in {[r0 EXCEPT !.summary = summary, !.summaryText = summaryText]} :
  \E out \in {GetSummaryOutcome(r, ledger)} :
    /\ req' = [op |-> "get-summary", at |-> now, in |-> r]
    /\ resp' = [status |-> out.status, error |-> out.error, body |-> out.body]
    /\ calls' = out.calls
    /\ repeated' = FALSE
    /\ UNCHANGED <<ledger, now, ticks, writes, attended>>
    /\ UNCHANGED <<adminVars, fetchVars, inflight, authVars>>

GetTranscript(requests, statuses, texts, answers, downloads) ==
  \E r0 \in requests :
  \E recordings \in IF Answerable(r0, ledger) THEN answers ELSE {r0.recordings} :
  \E download \in IF Answerable(r0, ledger) /\ recordings.transcript THEN downloads
                  ELSE {r0.download} :
  \E summary \in IF Answerable(r0, ledger) /\ ~(recordings.transcript /\ download = 200)
                   THEN statuses ELSE {r0.summary} :
  \E summaryText \in IF summary # 200 THEN texts ELSE {""} :
  \E r \in {[r0 EXCEPT !.summary = summary, !.summaryText = summaryText,
                       !.recordings = recordings, !.download = download]} :
  \E out \in {GetTranscriptOutcome(r, ledger)} :
    /\ req' = [op |-> "get-transcript", at |-> now, in |-> r]
    /\ resp' = [status |-> out.status, error |-> out.error, body |-> out.body]
    /\ calls' = out.calls
    /\ repeated' = FALSE
    /\ UNCHANGED <<ledger, now, ticks, writes, attended>>
    /\ UNCHANGED <<adminVars, fetchVars, inflight, authVars>>

\* Authorization headers of every shape, and the requests that carry them with
\* every parameter, whoever the caller is
ArrivingHeaders ==
  AuthHeaders \cup {<<"Bearer">>, <<"Bearer", "">>, <<"Bearer", "t-al", "x">>}

ArrivingContentRequests ==
  { [authorization |-> authorization, instance_uuid |-> instance_uuid,
     summary |-> 200, summaryText |-> "",
     recordings |-> [status |-> 200, transcript |-> TRUE], download |-> 200] :
      authorization \in ArrivingHeaders, instance_uuid \in Uuids \cup {Undefined} }

ArrivingGetSummary == GetSummary(ArrivingContentRequests, {200}, {""})

ArrivingGetTranscript ==
  GetTranscript(ArrivingContentRequests, {200}, {""}, {[status |-> 200, transcript |-> TRUE]},
                {200})

\* The content endpoints while the platform has the content or has it not
HandleGetSummary == GetSummary(ContentRequests, {200, 404}, {""})

HandleGetTranscript ==
  GetTranscript(ContentRequests, {200, 404}, {""}, {a \in RecordingAnswers : a.status = 200}, {200})

----------------------------------------------------------------------------
(* Ledger queries (utils/firestore.ts) and the list endpoint (list-meetings.ts) *)

\* orderBy('start_time', 'desc'): later start first, ties by document id, descending
DocBefore(db, j, k) ==
  \/ db[j].start_time > db[k].start_time
  \/ /\ db[j].start_time = db[k].start_time
     /\ \/ StringLess(k.uuid, j.uuid)
        \/ k.uuid = j.uuid /\ k.hash < j.hash

RECURSIVE OrderDocs(_, _)
OrderDocs(db, keys) ==
  IF keys = {} THEN <<>>
  ELSE LET first == CHOOSE j \in keys : \A k \in keys \ {j} : DocBefore(db, j, k)
       IN <<first>> \o OrderDocs(db, keys \ {first})

\* .limit(n)
Take(docs, n) == SubSeq(docs, 1, IF Len(docs) < n THEN Len(docs) ELSE n)

MeetingListItem(data) ==
  [instance_uuid |-> data.instance_uuid,
   meeting_id |-> data.meeting_id,
   topic |-> data.topic,
   date |-> data.start_time,
   duration_minutes |-> data.duration_minutes,
   host_email |-> data.host_email,
   has_summary |-> data.has_summary,
   has_recording |-> data.has_recording]

\* The loop over snapshot.docs: one item per instance_uuid; stopAt is the
\* number of items at which queryAllMeetings breaks (0: no break)
RECURSIVE DedupeDocs(_, _, _, _, _)
DedupeDocs(db, docs, seenUuids, meetings, stopAt) ==
  IF docs = <<>> THEN meetings
  ELSE LET data == db[Head(docs)]
       IN IF data.instance_uuid \in seenUuids
            THEN DedupeDocs(db, Tail(docs), seenUuids, meetings, stopAt)
          ELSE IF stopAt # 0 /\ Len(meetings) + 1 >= stopAt
            THEN Append(meetings, MeetingListItem(data))
          ELSE DedupeDocs(db, Tail(docs), seenUuids \cup {data.instance_uuid},
                          Append(meetings, MeetingListItem(data)), stopAt)

\* A query that leaves the participant filter out
queryMeetingsOfAnyone(db, email, fromDate, toDate, limit) ==
  LET matching == {k \in DOMAIN db :
                     fromDate <= db[k].start_time /\ db[k].start_time <= toDate}
  IN DedupeDocs(db, Take(OrderDocs(db, matching), limit), {}, <<>>, 0)

queryMeetingsByEmail(db, email, fromDate, toDate, limit) ==
  LET matching == {k \in DOMAIN db :
                     /\ db[k].participant_email = ToLowerCase(email)
                     /\ fromDate <= db[k].start_time /\ db[k].start_time <= toDate}
  IN DedupeDocs(db, Take(OrderDocs(db, matching), limit), {}, <<>>, 0)

queryAllMeetings(db, fromDate, toDate, limit) ==
  LET matching == {k \in DOMAIN db :
                     fromDate <= db[k].start_time /\ db[k].start_time <= toDate}
  IN DedupeDocs(db, Take(OrderDocs(db, matching), limit * 10), {}, <<>>, limit)

\* A scoping that trusts the caller with the admin-only parameters
ListScopeOfAnyone(userInfo, params) ==
  IF params.user_email # Undefined
    THEN [denied |-> FALSE, error |-> "", all |-> FALSE,
          email |-> ToLowerCase(params.user_email)]
  ELSE IF params.all_meetings
    THEN [denied |-> FALSE, error |-> "", all |-> TRUE, email |-> Undefined]
  ELSE [denied |-> FALSE, error |-> "", all |-> FALSE, email |-> ToLowerCase(userInfo.email)]

\* "Determine which email to query for": the admin-only parameters
ListScope(userInfo, params) ==
  IF params.user_email # Undefined
    THEN IF ~userInfo.isAdmin
           THEN [denied |-> TRUE, error |-> "Admin access required to query other users",
                 all |-> FALSE, email |-> Undefined]
           ELSE [denied |-> FALSE, error |-> "", all |-> FALSE,
                 email |-> ToLowerCase(params.user_email)]
  ELSE IF params.all_meetings
    THEN IF ~userInfo.isAdmin
           THEN [denied |-> TRUE, error |-> "Admin access required for all_meetings",
                 all |-> FALSE, email |-> Undefined]
           ELSE [denied |-> FALSE, error |-> "", all |-> TRUE, email |-> Undefined]
  ELSE [denied |-> FALSE, error |-> "", all |-> FALSE, email |-> ToLowerCase(userInfo.email)]

\* handleListMeetings; an absent date is NoTime, an absent limit 0
ListMeetingsOutcome(r, db, clock) ==
  LET auth == AuthenticateCaller(r.authorization)
      toDate == IF r.to_date # NoTime THEN r.to_date ELSE clock
      fromDate == IF r.from_date # NoTime THEN r.from_date ELSE clock - DefaultRangeDays
      limit == IF r.limit # 0 THEN r.limit ELSE DefaultLimit
      scope == ListScope(auth.user, r)
  IN IF auth.status # 200 THEN Reply(auth.status, auth.error, auth.calls)
     ELSE IF scope.denied THEN Reply(403, scope.error, auth.calls)
     ELSE IF scope.all
       THEN [status |-> 200, error |-> "",
             body |-> [meetings |-> queryAllMeetings(db, fromDate, toDate, limit)],
             calls |-> Append(auth.calls, "queryAllMeetings")]
     ELSE [status |-> 200, error |-> "",
           body |-> [meetings |-> queryMeetingsByEmail(db, scope.email, fromDate, toDate,
                                                       limit)],
           calls |-> Append(auth.calls, "queryMeetingsByEmail")]

\* The ranges and limits asked for: the defaults (the last 30 days, 50), a limit
\* of one, and day 0 alone
ListRanges ==
  { [from_date |-> NoTime, to_date |-> NoTime, limit |-> 0],
    [from_date |-> NoTime, to_date |-> NoTime, limit |-> 1],
    [from_date |-> 0, to_date |-> 0, limit |-> 0] }

\* The requests to the list endpoint; only a validated caller's parameters are
\* looked at
ListRequests ==
  UNION { { [authorization |-> authorization, from_date |-> range.from_date,
             to_date |-> range.to_date, limit |-> range.limit,
             user_email |-> user_email, all_meetings |-> all_meetings] :
              user_email \in IF AuthenticateCaller(authorization).status = 200
                                THEN {Undefined, BOu} ELSE {Undefined},
              all_meetings \in IF AuthenticateCaller(authorization).status = 200
                                  THEN BOOLEAN ELSE {FALSE},
              range \in IF AuthenticateCaller(authorization).status = 200
                           THEN ListRanges
                           ELSE {[from_date |-> NoTime, to_date |-> NoTime, limit |-> 0]} } :
          authorization \in AuthHeaders }

\* The list requests of the users of every reported role
RoleRequests ==
  { [authorization |-> <<"Bearer", token>>, from_date |-> range.from_date,
     to_date |-> range.to_date, limit |-> range.limit,
     user_email |-> user_email, all_meetings |-> all_meetings] :
      token \in DOMAIN ReportedRole, user_email \in {Undefined, BOu},
      all_meetings \in BOOLEAN, range \in ListRanges }

ListMeetings(requests) ==
  \E r \in requests :
  \E out \in {ListMeetingsOutcome(r, ledger, now)} :
    /\ req' = [op |-> "list-meetings", at |-> now, in |-> r]
    /\ resp' = [status |-> out.status, error |-> out.error, body |-> out.body]
    /\ calls' = out.calls
    /\ repeated' = FALSE
    /\ UNCHANGED <<ledger, now, ticks, writes, attended>>
    /\ UNCHANGED <<adminVars, fetchVars, inflight, authVars>>

HandleListMeetings == ListMeetings(ListRequests)

HandleListMeetingsOfRoles == ListMeetings(RoleRequests)

ArrivingListRequests ==
  { [authorization |-> authorization, from_date |-> NoTime, to_date |-> NoTime,
     limit |-> 0, user_email |-> user_email, all_meetings |-> all_meetings] :
      authorization \in ArrivingHeaders, user_email \in {Undefined, BOu},
      all_meetings \in BOOLEAN }

ArrivingListMeetings == ListMeetings(ArrivingListRequests)

----------------------------------------------------------------------------
(* Time *)

Tick ==
  /\ ticks < MaxTicks
  /\ \E d \in {1, RETENTION_DAYS} : now' = now + d
  /\ ticks' = ticks + 1
  /\ UNCHANGED <<ledger, writes, req, resp, calls, attended, repeated>>
  /\ UNCHANGED <<adminVars, fetchVars, inflight, authVars>>

----------------------------------------------------------------------------
(* The ledger's functions called directly (utils/firestore.ts) *)

\* A record as a caller of createParticipantRecord passes it: the email is
\* spelled as the caller has it.
RecordFor(u, email, clock) ==
  [instance_uuid |-> u,
   meeting_id |-> PastMeeting(u).id,
   topic |-> PastMeeting(u).topic,
   host_email |-> PastMeeting(u).host_email,
   start_time |-> PastMeeting(u).start_time,
   end_time |-> PastMeeting(u).end_time,
   duration_minutes |-> PastMeeting(u).duration,
   participant_email |-> email,
   participant_name |-> LocalPart(email),
   has_summary |-> TRUE,
   has_recording |-> TRUE,
   indexed_at |-> clock,
   source |-> "webhook"]

CreateParticipantRecord ==
  \E u \in Uuids, email \in Emails :
    /\ writes < MaxWrites
    /\ writes' = writes + 1
    /\ ledger' = createParticipantRecord(ledger, RecordFor(u, email, now))
    /\ attended' = attended \cup {[uuid |-> u, email |-> email]}
    /\ req' = [op |-> "createParticipantRecord", at |-> now, in |-> [uuid |-> u, email |-> email]]
    /\ resp' = [status |-> 200, error |-> "", body |-> NoBody]
    /\ calls' = <<"doc.set">>
    /\ repeated' = FALSE
    /\ UNCHANGED <<now, ticks>>
    /\ UNCHANGED <<adminVars, fetchVars, inflight, authVars>>

\* One batch that holds the pair twice, in two spellings
CreateParticipantRecordsBatch ==
  \E u \in Uuids, email \in {e \in Emails : e = ToLowerCase(e)}, failChunk \in {0, 1} :
  \E out \in {createParticipantRecordsBatch(ledger,
                <<RecordFor(u, CaseVariant(email), now), RecordFor(u, email, now)>>,
                failChunk)} :
    /\ writes < MaxWrites
    /\ writes' = writes + 1
    /\ ledger' = out.db
    /\ attended' = IF out.ok
                     THEN attended \cup {[uuid |-> u, email |-> email],
                                         [uuid |-> u, email |-> CaseVariant(email)]}
                     ELSE attended
    /\ req' = [op |-> "createParticipantRecordsBatch", at |-> now,
               in |-> [uuid |-> u, email |-> email, failChunk |-> failChunk]]
    /\ resp' = [status |-> IF out.ok THEN 200 ELSE 500, error |-> "", body |-> NoBody]
    /\ calls' = <<"batch.commit">>
    /\ repeated' = FALSE
    /\ UNCHANGED <<now, ticks>>
    /\ UNCHANGED <<adminVars, fetchVars, inflight, authVars>>

CheckParticipation ==
  \E u \in Uuids, email \in Emails :
    /\ req' = [op |-> "checkParticipation", at |-> now, in |-> [uuid |-> u, email |-> email]]
    /\ resp' = [status |-> 200, error |-> "",
                body |-> [exists |-> checkParticipation(ledger, u, email)]]
    /\ calls' = <<"doc.get">>
    /\ repeated' = FALSE
    /\ UNCHANGED <<ledger, now, ticks, writes, attended>>
    /\ UNCHANGED <<adminVars, fetchVars, inflight, authVars>>

----------------------------------------------------------------------------
(* Admin client (utils/admin-client.ts): the token cache and the five calls *)

\* The buffer before expiry within which the cached token is not used, minutes
RefreshMargin == 5

\* The concurrent invocations of one process
Callers == {1, 2}

AdminOps ==
  {"getPastMeeting", "getMeetingParticipants", "getMeetingSummary",
   "getMeetingRecordings", "downloadTranscript"}

\* expires_in of the token response, in minutes
ExpiresIn == {5, 7}

\* The answers of the platform to a call made with the admin token
FetchStatuses == {200, 401, 403, 404, 500}

Idle == [pc |-> "idle", op |-> "", now |-> 0, token |-> 0, attempts |-> 0, status |-> 0]

\* A cache that is used until the recorded expiry
CacheValidUntilExpiry(token, expiry, nowMin) == token # 0 /\ expiry > nowMin

\* getAdminToken's first lines: the cached token is returned when it is there
\* and expires more than five minutes from now
CacheValid(token, expiry, nowMin) == token # 0 /\ expiry > nowMin + RefreshMargin

\* The environment lacks ZOOM_ADMIN_ACCOUNT_ID, ZOOM_ADMIN_CLIENT_ID or
\* ZOOM_ADMIN_CLIENT_SECRET: such a process has never exchanged a token, and
\* getAdminToken throws before any request is made.
CallUnconfigured(c) ==
  \E op \in AdminOps :
    /\ proc[c].pc = "idle"
    /\ cachedToken = 0 /\ issued = 0
    /\ proc' = [proc EXCEPT ![c] = [pc |-> "failed", op |-> op, now |-> dateNow,
                                     token |-> 0, attempts |-> 0, status |-> 0]]
    /\ UNCHANGED <<cachedToken, tokenExpiry, dateNow, issued>>
    /\ UNCHANGED <<proxyVars, fetchVars, inflight, authVars>>

\* An admin-client function is called: it awaits getAdminToken, which returns
\* the cached token (the call goes on to its fetch) or posts a token exchange
\* and awaits the answer.
CallAdminOf(c, ops) ==
  \E op \in ops :
    /\ proc[c].pc = "idle"
    /\ IF CacheValid(cachedToken, tokenExpiry, dateNow)
         THEN /\ proc' = [proc EXCEPT ![c] = [pc |-> "fetching", op |-> op, now |-> dateNow,
                                              token |-> cachedToken, attempts |-> 1,
                                              status |-> 0]]
              /\ issued' = issued
         ELSE /\ issued < MaxExchanges
              /\ proc' = [proc EXCEPT ![c] = [pc |-> "exchanging", op |-> op, now |-> dateNow,
                                              token |-> issued + 1, attempts |-> 0,
                                              status |-> 0]]
              /\ issued' = issued + 1
    /\ UNCHANGED <<cachedToken, tokenExpiry, dateNow>>
    /\ UNCHANGED <<proxyVars, fetchVars, inflight, authVars>>

CallAdmin(c) == CallAdminOf(c, AdminOps)

\* The token exchange is answered: the token is cached with expiry = the time
\* getAdminToken was entered + expires_in, or getAdminToken throws.
TokenExchangeAnswered(c) ==
  \E ok \in BOOLEAN, expires_in \in ExpiresIn :
    /\ proc[c].pc = "exchanging"
    /\ IF ok
         THEN /\ cachedToken' = proc[c].token
              /\ tokenExpiry' = proc[c].now + expires_in
              /\ proc' = [proc EXCEPT ![c].pc = "fetching", ![c].attempts = 1]
         ELSE /\ expires_in = 5
              /\ proc' = [proc EXCEPT ![c].pc = "failed"]
              /\ UNCHANGED <<cachedToken, tokenExpiry>>
    /\ UNCHANGED <<dateNow, issued>>
    /\ UNCHANGED <<proxyVars, fetchVars, inflight, authVars>>

\* The platform answers the call: response.ok returns the body, anything else
\* throws 'Failed to ...: <status> - <text>'.
FetchAnsweredWith(c, statuses) ==
  \E status \in statuses :
    /\ proc[c].pc = "fetching"
    /\ proc' = [proc EXCEPT ![c].pc = IF status = 200 THEN "done" ELSE "failed",
                            ![c].status = status]
    /\ UNCHANGED <<cachedToken, tokenExpiry, dateNow, issued>>
    /\ UNCHANGED <<proxyVars, fetchVars, inflight, authVars>>

FetchAnswered(c) == FetchAnsweredWith(c, FetchStatuses)

\* The caller has its result or its error
Finish(c) ==
  /\ proc[c].pc \in {"done", "failed"}
  /\ proc' = [proc EXCEPT ![c] = Idle]
  /\ UNCHANGED <<cachedToken, tokenExpiry, dateNow, issued>>
  /\ UNCHANGED <<proxyVars, fetchVars, inflight, authVars>>

Elapse ==
  /\ dateNow < MaxClock
  /\ dateNow' = dateNow + 1
  /\ UNCHANGED <<cachedToken, tokenExpiry, proc, issued>>
  /\ UNCHANGED <<proxyVars, fetchVars, inflight, authVars>>

----------------------------------------------------------------------------
(* Specifications *)

EmptyLedger == [k \in {} |-> NoBody]

\* No OAuth flow has been started
NoFlow ==
  [phase |-> "none", server |-> "none", timer |-> "none", state |-> "", handlers |-> 0,
   exchanges |-> 0, saves |-> 0]

Init ==
  /\ ledger = EmptyLedger
  /\ now = 1
  /\ ticks = 0
  /\ writes = 0
  /\ req = [op |-> "none", at |-> 0, in |-> NoBody]
  /\ resp = [status |-> 0, error |-> "", body |-> NoBody]
  /\ calls = <<>>
  /\ attended = {}
  /\ repeated = FALSE
  /\ cachedToken = 0
  /\ tokenExpiry = 0
  /\ dateNow = 0
  /\ proc = [c \in Callers |-> Idle]
  /\ issued = 0
  /\ fetch = NoFetch
  /\ throttling = FALSE
  /\ inflight = <<>>
  /\ tokenStore = [keychain |-> NoBody, file |-> NoBody]
  /\ flow = NoFlow

\* Ingestion: Zoom's deliveries and the sweeper
NextIngest == Tick \/ HandleWebhook \/ HandleCleanup

SpecIngest == Init /\ [][NextIngest]_vars

\* The public endpoint under every header case, with a healthy admin client and
\* a Firestore commit that may fail
GatedWebhook ==
  Webhook(HeaderCases,
          {e \in MeetingEndedEvents(now) : e.object.host_email # Undefined} \cup OtherEvents,
          Healthy, {0, 1}, MaxWrites)

NextGate == Tick \/ GatedWebhook \/ HandleCleanup

SpecGate == Init /\ [][NextGate]_vars

\* Repeated ingestion: the deliveries of one occurrence, and the backfill
RedeliveredWebhook ==
  Webhook({"signed"}, {e \in MeetingEndedEvents(now) : e.object.uuid = U2}, AnyAnswers, {0},
          MaxWrites)

NextReplay == Tick \/ RedeliveredWebhook \/ Backfill

SpecReplay == Init /\ [][NextReplay]_vars

\* The content endpoints over a ledger filled by Zoom's deliveries
DeliveredWebhook ==
  Webhook({"signed"}, MeetingEndedEvents(now), BOOLEAN \X {TRUE}, {0}, MaxDeliveries)

NextAccess ==
  Tick \/ DeliveredWebhook \/ HandleCleanup \/ HandleGetSummary \/ HandleGetTranscript

SpecAccess == Init /\ [][NextAccess]_vars

\* The list endpoint over a ledger filled by Zoom's deliveries
IndexedWebhook == Webhook({"signed"}, MeetingEndedEvents(now), Healthy, {0}, MaxWrites)

NextList == Tick \/ IndexedWebhook \/ HandleCleanup \/ HandleListMeetings

SpecList == Init /\ [][NextList]_vars

\* The ledger's functions on their own
NextLedger == CreateParticipantRecord \/ CreateParticipantRecordsBatch \/ CheckParticipation

SpecLedger == Init /\ [][NextLedger]_vars

\* The content endpoints under every answer of the platform, over the ledger
\* one occurrence's deliveries leave
IngestedWebhook ==
  Webhook({"signed"}, {e \in MeetingEndedEvents(now) : e.object.uuid = U1}, Healthy, {0},
          MaxDeliveries)

AnsweredGetSummary == GetSummary(ContentRequests, UpstreamStatuses, ErrorTexts)

AnsweredGetTranscript ==
  GetTranscript(ContentRequests, UpstreamStatuses, ErrorTexts, RecordingAnswers, {200, 500})

NextContent == IngestedWebhook \/ AnsweredGetSummary \/ AnsweredGetTranscript

SpecContent == Init /\ [][NextContent]_vars

\* The three proxy endpoints over the ledger one occurrence's deliveries leave
NextProxy ==
  IngestedWebhook \/ HandleListMeetings \/ HandleGetSummary \/ HandleGetTranscript

SpecProxy == Init /\ [][NextProxy]_vars

\* The list endpoint called by users of every reported role
NextRoles == IngestedWebhook \/ HandleListMeetingsOfRoles

SpecRoles == Init /\ [][NextRoles]_vars

\* The proxy endpoints under requests of every caller, authenticated or not
NextArrivals ==
  IngestedWebhook \/ ArrivingListMeetings \/ ArrivingGetSummary \/ ArrivingGetTranscript

SpecArrivals == Init /\ [][NextArrivals]_vars

ThrottledBackfill == ImportRun(ImportRuns)

WhollyThrottledBackfill == ImportRun(WholeRuns)

\* The importer's fetches step by step, and its runs, against a platform that
\* throttles now and then
FetchStep == Pace \/ Issue \/ Respond \/ Retry \/ ReturnFetch

NextFetch == CallFetch \/ FetchStep \/ Throttle \/ WhollyThrottledBackfill

SpecFetch == Init /\ [][NextFetch]_vars

\* Node runs every due timer and every continuation of a settled promise, and
\* the platform answers every request: a call under way takes its next step
SpecFetchFair == SpecFetch /\ WF_vars(FetchStep)

\* The importer against a platform that throttles, after Zoom's deliveries
NextImport == IngestedWebhook \/ ThrottledBackfill

SpecImport == Init /\ [][NextImport]_vars

\* The admin client under concurrent invocations of one process
NextAdmin ==
  \/ \E c \in Callers : CallAdmin(c)
  \/ \E c \in Callers : TokenExchangeAnswered(c)
  \/ \E c \in Callers : FetchAnswered(c)
  \/ \E c \in Callers : Finish(c)
  \/ Elapse

SpecAdmin == Init /\ [][NextAdmin]_vars

----------------------------------------------------------------------------
(* Claims *)

\* Two spellings of one email
SameUpToCase(e1, e2) == ToLowerCase(e1) = ToLowerCase(e2)

\* The caller a request's bearer token validates to
Caller == AuthenticateCaller(req.in.authorization)

CallsMade == {calls[i] : i \in DOMAIN calls}

ContentOps == {"get-summary", "get-transcript"}

AdminFetches == {"getMeetingSummary", "getMeetingRecordings", "downloadTranscript"}

\* The ledger holds a record of the occurrence for the email, in any spelling
HasRecord(u, email) ==
  \E k \in DOMAIN ledger :
    /\ ledger[k].instance_uuid = u
    /\ ToLowerCase(ledger[k].participant_email) = ToLowerCase(email)

\* C1: a get-summary or get-transcript request of a validated non-admin caller
\* for an occurrence of which the ledger holds no record for the caller's email
\* is answered 403, with no content and not 404, and makes no admin-client
\* fetch.
C1_NonParticipantDenied ==
  (/\ req.op \in ContentOps
   /\ Caller.status = 200 /\ ~Caller.user.isAdmin
   /\ req.in.instance_uuid # Undefined
   /\ ~HasRecord(req.in.instance_uuid, Caller.user.email))
    => (resp.status = 403 /\ resp.body = NoBody /\ CallsMade \cap AdminFetches = {})

\* C1 witness: a member with a record of another occurrence asked for a
\* transcript the platform would have served, and was refused
C1_Witness ==
  /\ req.op = "get-transcript"
  /\ Caller.status = 200 /\ ~Caller.user.isAdmin
  /\ req.in.instance_uuid # Undefined
  /\ ~HasRecord(req.in.instance_uuid, Caller.user.email)
  /\ \E u \in Uuids : HasRecord(u, Caller.user.email)
  /\ req.in.recordings.transcript /\ req.in.download = 200
  /\ resp.status = 403

ListFrom == IF req.in.from_date # NoTime THEN req.in.from_date ELSE req.at - DefaultRangeDays

ListTo == IF req.in.to_date # NoTime THEN req.in.to_date ELSE req.at

ListLimit == IF req.in.limit # 0 THEN req.in.limit ELSE DefaultLimit

InListRange(k) == ListFrom <= ledger[k].start_time /\ ledger[k].start_time <= ListTo

Listed == {resp.body.meetings[i].instance_uuid : i \in DOMAIN resp.body.meetings}

Least(a, b) == IF a < b THEN a ELSE b

\* The response lists, latest first and once each, the occurrences of `occ`, as
\* many as the limit allows
Lists(occ) ==
  /\ resp.status = 200
  /\ Listed \subseteq occ
  /\ Len(resp.body.meetings) = Cardinality(Listed)
  /\ Cardinality(Listed) = Least(Cardinality(occ), ListLimit)
  /\ \A i \in DOMAIN resp.body.meetings, j \in DOMAIN resp.body.meetings :
       i < j => resp.body.meetings[i].date >= resp.body.meetings[j].date

OccurrencesOf(email) ==
  {ledger[k].instance_uuid :
     k \in {j \in DOMAIN ledger :
              ledger[j].participant_email = ToLowerCase(email) /\ InListRange(j)}}

OccurrencesOfAll == {ledger[k].instance_uuid : k \in {j \in DOMAIN ledger : InListRange(j)}}

LedgerQueries == {"queryMeetingsByEmail", "queryAllMeetings"}

OwnRecords == {k \in DOMAIN ledger : ledger[k].participant_email = ToLowerCase(Caller.user.email)}

\* C4: what the list endpoint answers a non-admin caller is what it answers
\* over the caller's own records alone, so that ledgers that agree on those
\* records give the same response; and whatever the parameters, every
\* occurrence listed is one of which the caller has a record.
C4_OwnRecordsOnly ==
  (req.op = "list-meetings" /\ Caller.status = 200 /\ ~Caller.user.isAdmin) =>
    LET alone == ListMeetingsOutcome(req.in, Restrict(ledger, OwnRecords), req.at)
    IN /\ resp = [status |-> alone.status, error |-> alone.error, body |-> alone.body]
       /\ resp.status \in {200, 403}
       /\ resp.status = 403 => resp.body = NoBody
       /\ resp.status = 200 =>
            \A i \in DOMAIN resp.body.meetings :
              \E k \in OwnRecords :
                ledger[k].instance_uuid = resp.body.meetings[i].instance_uuid

\* C4 witness: a member was listed an occurrence of their own while the ledger
\* held an occurrence in which they have no record
C4_Witness ==
  /\ req.op = "list-meetings"
  /\ Caller.status = 200 /\ ~Caller.user.isAdmin
  /\ resp.status = 200
  /\ Len(resp.body.meetings) >= 1
  /\ \E k \in DOMAIN ledger :
       \A j \in OwnRecords : ledger[j].instance_uuid # ledger[k].instance_uuid

\* The platform has the content a request asks for
SummaryExists == req.in.summary = 200

RecordingExists ==
  req.in.recordings.status = 200 /\ req.in.recordings.transcript /\ req.in.download = 200

\* C5: for a caller who validates as admin, get-summary and get-transcript do
\* not consult the ledger and do not answer 403; the request goes on to the
\* admin-client fetch and returns the content when the platform has it.
C5_AdminBypass ==
  (/\ req.op \in ContentOps
   /\ Caller.status = 200 /\ Caller.user.isAdmin
   /\ req.in.instance_uuid # Undefined)
    => /\ "checkParticipation" \notin CallsMade
       /\ resp.status # 403
       /\ req.op = "get-summary" =>
            /\ "getMeetingSummary" \in CallsMade
            /\ SummaryExists =>
                 (resp.status = 200
                    /\ resp.body = [summary |-> SummaryOf(req.in.instance_uuid)])
       /\ req.op = "get-transcript" =>
            /\ "getMeetingRecordings" \in CallsMade
            /\ RecordingExists =>
                 (resp.status = 200
                    /\ resp.body = [transcript |-> parseVttToText(VttOf(req.in.instance_uuid)),
                                    source |-> "recording"])
            /\ (~RecordingExists /\ SummaryExists) =>
                 (resp.status = 200 /\ resp.body.source = "ai_summary")

\* C5 witness: the account owner, of whom the ledger holds no record, was
\* served the transcript of an ingested occurrence
C5_Witness ==
  /\ req.op = "get-transcript"
  /\ Caller.status = 200 /\ Caller.user.isAdmin
  /\ req.in.instance_uuid # Undefined
  /\ \E u \in Uuids : HasRecord(u, BO)
  /\ \A u \in Uuids : ~HasRecord(u, Caller.user.email)
  /\ resp.status = 200 /\ resp.body.source = "recording"

\* The step is one invocation of handleWebhook
WebhookStep == ticks' = ticks /\ req'.op = "webhook"

\* C6: host-always-present: for every stored record that names a host there is
\* a stored record of the same occurrence whose participant_email is the
\* lowercased host email.
C6_HostAlwaysPresent ==
  \A k \in DOMAIN ledger :
    ledger[k].host_email # Undefined =>
      \E j \in DOMAIN ledger :
        /\ ledger[j].instance_uuid = ledger[k].instance_uuid
        /\ ledger[j].participant_email = ToLowerCase(ledger[k].host_email)

\* C7: after any sequence of upserts of an (occurrence, email) pair in varying
\* letter case the ledger holds exactly one record for the pair, the key is a
\* function of the occurrence id and the lowercased email, and the lookup finds
\* the record under every case variant of the email.
C7_OneRecordPerPair ==
  /\ \A p \in attended :
       /\ Cardinality({k \in DOMAIN ledger :
                         /\ ledger[k].instance_uuid = p.uuid
                         /\ SameUpToCase(ledger[k].participant_email, p.email)}) = 1
       /\ \A e \in Emails :
            SameUpToCase(e, p.email) =>
              /\ participantRecordExists(ledger, p.uuid, e)
              /\ checkParticipation(ledger, p.uuid, e)
  /\ \A u \in Uuids, e1 \in Emails, e2 \in Emails :
       SameUpToCase(e1, e2) => generateDocumentId(u, e1) = generateDocumentId(u, e2)
  /\ \A k \in DOMAIN ledger :
       k = generateDocumentId(ledger[k].instance_uuid,
                              ToLowerCase(ledger[k].participant_email))

\* C7 witness: a pair was upserted under two spellings and is looked up
C7_Witness ==
  /\ req.op = "checkParticipation"
  /\ resp.body.exists
  /\ \E p \in attended, q \in attended :
       /\ p.uuid = q.uuid /\ p.uuid = req.in.uuid
       /\ p.email # q.email /\ SameUpToCase(p.email, q.email)
       /\ SameUpToCase(p.email, req.in.email)

\* What makes a request unauthentic: a header is missing, the signature is not
\* the HMAC of "v0:<timestamp>:<body>", or the timestamp is off by more than
\* five minutes
Unauthentic(r, nowSec) ==
  \/ r.signature = <<>>
  \/ r.timestamp = <<>>
  \/ r.signature[1] # ExpectedSignature(r.timestamp[1], r.body, Secret)
  \/ nowSec - r.timestamp[1] > FiveMinutesSec
  \/ r.timestamp[1] - nowSec > FiveMinutesSec

Blanked(r, in, op) ==
  LET defaulted == /\ op = "webhook"
                   /\ in.body.object.uuid = r.instance_uuid
                   /\ in.body.object.end_time = NoTime
                   /\ ~in.apiD.ok
  IN [r EXCEPT !.indexed_at = 0, !.end_time = IF defaulted THEN 0 ELSE @]

CleanupStep == ticks' = ticks /\ req'.op = "cleanup"

\* The cutoffs deleteOldRecords is asked about: before, between and after the
\* start times of the platform's meetings
Cutoffs == {0, 1, 2}

InFlight == {c \in Callers : proc[c].pc = "exchanging"}

\* C12: within one process at most one token exchange is in flight at any
\* time, and callers that arrive during a refresh receive that refresh's token.
C12_SingleFlight ==
  /\ Cardinality(InFlight) <= 1
  /\ \A c \in Callers, d \in Callers :
       (proc[c].pc = "fetching" /\ proc[d].pc = "fetching" /\ proc[c].now = proc[d].now)
         => proc[c].token = proc[d].token

\* C13: a call answered 401 or 403 forces one token refresh and is retried
\* once, so that an error with status 401 or 403 reaches the caller only after
\* the second attempt, and no call is attempted more than twice.
C13_RetryOnceOnAuthFailure ==
  \A c \in Callers :
    /\ proc[c].attempts <= 2
    /\ (proc[c].pc = "failed" /\ proc[c].status \in {401, 403}) => proc[c].attempts = 2

\* The caller of a content request is an admin or has a record of the occurrence
Authorized ==
  /\ req.op \in ContentOps
  /\ Caller.status = 200
  /\ req.in.instance_uuid # Undefined
  /\ (Caller.user.isAdmin \/ HasRecord(req.in.instance_uuid, Caller.user.email))

\* C14: for an authorized caller the content endpoints answer 404 when, and
\* only when, the platform answered the content's fetch with HTTP 404; any
\* other failure is answered 500, and neither is reported as 403.
C14_NotFoundOnlyOn404 ==
  (Authorized /\ "getMeetingSummary" \in CallsMade) =>
    /\ resp.status \in {200, 404, 500}
    /\ resp.status = 200 <=> req.in.summary = 200
    /\ resp.status = 404 <=> req.in.summary = 404
    /\ resp.status = 500 <=> req.in.summary \notin {200, 404}

\* The position of the first call of the name in the call log, 0 when absent
CallIndex(name) ==
  IF name \in CallsMade
    THEN CHOOSE i \in DOMAIN calls :
           calls[i] = name /\ \A j \in DOMAIN calls : calls[j] = name => i <= j
    ELSE 0

\* C15: an authorized get-transcript tries the recording first; when the
\* transcript file is listed and downloads, its parsed text is returned with
\* source 'recording' and the summary is not fetched; the summary is fetched
\* only when no recording transcript is available and its text is returned
\* with source 'ai_summary'; the source names the origin of the text.
C15_RecordingFirst ==
  (Authorized /\ req.op = "get-transcript") =>
    /\ "getMeetingRecordings" \in CallsMade
    /\ "getMeetingSummary" \in CallsMade =>
         /\ CallIndex("getMeetingRecordings") < CallIndex("getMeetingSummary")
         /\ ~RecordingExists
    /\ "downloadTranscript" \in CallsMade =>
         /\ CallIndex("getMeetingRecordings") < CallIndex("downloadTranscript")
         /\ req.in.recordings.status = 200 /\ req.in.recordings.transcript
    /\ RecordingExists =>
         /\ resp.status = 200
         /\ resp.body = [transcript |-> parseVttToText(VttOf(req.in.instance_uuid)),
                         source |-> "recording"]
         /\ "getMeetingSummary" \notin CallsMade
    /\ (~RecordingExists /\ SummaryExists) =>
         /\ resp.status = 200
         /\ resp.body = [transcript |-> SummaryTranscript(SummaryOf(req.in.instance_uuid)),
                         source |-> "ai_summary"]
    /\ resp.status = 200 =>
         /\ resp.body.source \in {"recording", "ai_summary"}
         /\ resp.body.source = "recording" <=> RecordingExists
         /\ resp.body.source = "ai_summary" <=> "getMeetingSummary" \in CallsMade

C15_Witness ==
  /\ Authorized /\ req.op = "get-transcript"
  /\ ~Caller.user.isAdmin
  /\ req.in.recordings.transcript /\ req.in.download = 500
  /\ calls = <<"validateUserToken", "checkParticipation", "getMeetingRecordings",
               "downloadTranscript", "getMeetingSummary">>
  /\ resp.status = 200 /\ resp.body.source = "ai_summary"
  /\ resp.body.transcript # parseVttToText(VttOf(req.in.instance_uuid))

ProxyOps == {"list-meetings", "get-summary", "get-transcript"}

\* What validateUserToken returns for the bearer token of the logged request
TokenUser == validateUserToken(extractBearerToken(req.in.authorization))

\* C16: in every proxy request the admin status the decision is taken on is
\* the one validateUserToken returns, in that request, for the request's bearer
\* token: the token is validated once before anything else, and whether the
\* participation check is made, whether 403 is answered and which query runs
\* follow from that value whatever the other request fields and whatever the
\* requests before.
C16_AdminFromToken ==
  (req.op \in ProxyOps /\ TokenUser.ok) =>
    /\ calls # <<>> /\ calls[1] = "validateUserToken"
    /\ \A i \in DOMAIN calls : calls[i] = "validateUserToken" => i = 1
    /\ (req.op \in ContentOps /\ req.in.instance_uuid # Undefined) =>
         /\ "checkParticipation" \in CallsMade <=> ~TokenUser.isAdmin
         /\ resp.status = 403 <=>
              (~TokenUser.isAdmin /\ ~HasRecord(req.in.instance_uuid, TokenUser.email))
    /\ req.op = "list-meetings" =>
         /\ resp.status = 403 <=>
              (~TokenUser.isAdmin /\ (req.in.user_email # Undefined \/ req.in.all_meetings))
         /\ "queryAllMeetings" \in CallsMade <=>
              (TokenUser.isAdmin /\ req.in.user_email = Undefined /\ req.in.all_meetings)
         /\ (resp.status = 200 /\ ~TokenUser.isAdmin) =>
              \A i \in DOMAIN resp.body.meetings :
                HasRecord(resp.body.meetings[i].instance_uuid, TokenUser.email)

C16_Witness ==
  /\ req.op = "list-meetings"
  /\ TokenUser.ok /\ ~TokenUser.isAdmin
  /\ req.in.all_meetings /\ req.in.user_email = Undefined
  /\ ledger # <<>>
  /\ calls = <<"validateUserToken">>
  /\ resp.status = 403

\* C17: validateUserToken sets isAdmin exactly when the role id the platform
\* reports is 0 or 1; for every other reported value (2 and above, negative,
\* missing, non-numeric) isAdmin is false, and the list endpoint treats the
\* caller accordingly.
C17_AdminIffOwnerOrAdmin ==
  (req.op = "list-meetings" /\ TokenUser.ok) =>
    LET reported == UsersMe(extractBearerToken(req.in.authorization)).role_id
    IN /\ TokenUser.isAdmin <=> reported \in {<<"0">>, <<"1">>}
       /\ (req.in.all_meetings /\ req.in.user_email = Undefined) =>
            (resp.status = 200 <=> reported \in {<<"0">>, <<"1">>})

\* The logged request has no well-formed bearer header, or a token the
\* identity endpoint rejects
Unauthenticated ==
  \/ extractBearerToken(req.in.authorization) = NoToken
  \/ UsersMe(extractBearerToken(req.in.authorization)).status # 200

\* C18: in the three proxy endpoints a request without a well-formed bearer
\* header, or whose token the identity endpoint rejects, is answered 401 and
\* ends there: no ledger read, no admin-client call and no parameter
\* validation, so 401 comes before 400, 403 and 404.
C18_UnauthenticatedFirst ==
  (req.op \in ProxyOps /\ Unauthenticated) =>
    /\ resp.status = 401
    /\ resp.body = NoBody
    /\ calls = IF extractBearerToken(req.in.authorization) = NoToken
                 THEN <<>> ELSE <<"validateUserToken">>
    /\ CallsMade \cap (LedgerQueries \cup AdminFetches \cup {"checkParticipation"}) = {}

C18_Witness ==
  /\ req.op = "get-summary"
  /\ req.in.authorization = <<"Bearer", "t-expired">>
  /\ req.in.instance_uuid = Undefined
  /\ ledger # <<>>
  /\ calls = <<"validateUserToken">>
  /\ resp.status = 401

\* How often the request occurs among the requests sent
TimesSent(request, sent) == Cardinality({i \in DOMAIN sent : sent[i] = request})

\* A record with its bookkeeping time blanked
WithoutIndexedAt(r) == [r EXCEPT !.indexed_at = 0]

RECURSIVE ReadsOf(_)
ReadsOf(sent) ==
  IF sent = <<>> THEN <<>>
  ELSE (IF Head(sent).kind = "batch.commit" THEN <<>> ELSE <<Head(sent)>>) \o ReadsOf(Tail(sent))

\* C21: a dry run of the backfill issues the platform reads of the normal run
\* over the same data, in the same order, commits no batch and leaves the
\* ledger as it was.
C21_DryRunReadsOnly ==
  [][(req'.op = "backfill" /\ writes' = writes + 1 /\ req'.in.dryRun)
       => \A dry \in {backfill(ledger, req'.in, now)} :
          \A normal \in {backfill(ledger, [req'.in EXCEPT !.dryRun = FALSE], now)} :
            /\ ledger' = ledger
            /\ resp'.status = 0
            /\ calls' = KindsOf(dry.issued)
            /\ \A i \in DOMAIN calls' : calls'[i] # "batch.commit"
            /\ dry.issued = ReadsOf(normal.issued)
            /\ calls' = KindsOf(ReadsOf(normal.issued))]_vars

C21_Witness ==
  /\ req.op = "backfill" /\ req.in.dryRun /\ req.in.listOk
  /\ resp.status = 0
  /\ Len(calls) >= 5
  /\ \E i \in DOMAIN calls : calls[i] = "getMeetingParticipants"
  /\ \A k \in DOMAIN ledger : ledger[k].source = "webhook"
  /\ Cardinality(DOMAIN backfill(ledger, [req.in EXCEPT !.dryRun = FALSE], req.at).db)
       > Cardinality(DOMAIN ledger)

----------------------------------------------------------------------------
(* Deliveries whose Firestore commit may be rejected, and their redelivery *)

\* Zoom's deliveries of the occurrence U2, whatever the admin client answers,
\* the commit of the first chunk failing or not
FailingWebhook ==
  Webhook({"signed"}, {e \in MeetingEndedEvents(now) : e.object.uuid = U2}, AnyAnswers,
          {0, 1}, MaxWrites)

NextRetry == Tick \/ FailingWebhook

SpecRetry == Init /\ [][NextRetry]_vars

\* The step processes a meeting.ended event whose commit is rejected
FailedDelivery ==
  /\ WebhookStep /\ req'.in.body.event = "meeting.ended"
  /\ req'.in.failChunk # 0
  /\ WebhookRecords(req'.in.body.object, req'.in.apiP, req'.in.apiD, now) # <<>>

\* The step redelivers, successfully, the event whose delivery just failed,
\* the admin client answering as it did
Redelivery ==
  /\ req.op = "webhook" /\ resp.status = 500
  /\ WebhookStep /\ resp'.status = 200
  /\ req'.in.body = req.in.body
  /\ req'.in.apiP = req.in.apiP /\ req'.in.apiD = req.in.apiD

\* What the failed delivery would have left had its commit been accepted
HadItSucceeded == WebhookOutcome([req.in EXCEPT !.failChunk = 0], ledger, req.at).db

\* A failed delivery answers 500, drops no record and writes none but its own
FailureAnswered ==
  FailedDelivery
    => /\ resp'.status = 500 /\ resp'.error = "Failed to process event"
       /\ DOMAIN ledger \subseteq DOMAIN ledger'
       /\ \A k \in DOMAIN ledger' :
            (k \notin DOMAIN ledger \/ ledger'[k] # ledger[k])
              => \E i \in DOMAIN WebhookRecords(req'.in.body.object, req'.in.apiP,
                                                 req'.in.apiD, now) :
                   ledger'[k] = WebhookRecords(req'.in.body.object, req'.in.apiP,
                                               req'.in.apiD, now)[i]

----------------------------------------------------------------------------
(* Admin-client failures during meeting.ended processing *)

\* The distinct lowercased emails the payload itself names: host and attendees
PayloadEmails(m) ==
  (IF m.host_email # Undefined THEN {ToLowerCase(m.host_email)} ELSE {})
    \cup {ToLowerCase(m.participant[i].email) :
            i \in {j \in DOMAIN m.participant : m.participant[j].email # Undefined}}

\* The step processes a signed meeting.ended event while an admin-client call
\* fails and Firestore accepts the commit
DegradedDelivery ==
  /\ WebhookStep /\ req'.in.method = "POST" /\ req'.in.body.event = "meeting.ended"
  /\ validateWebhookSignature(req'.in.signature, req'.in.timestamp, req'.in.body, Secret,
                              now * SecPerDay)
  /\ ~req'.in.apiP.ok \/ ~req'.in.apiD.ok
  /\ req'.in.failChunk = 0

\* C23: a failure of getMeetingParticipants or of getPastMeeting never fails
\* the event. The webhook answers 200 and the host and the payload's attendees
\* each get their record; when the details call failed the records carry the
\* payload's end time (the time of processing if it has none), duration and
\* host email, and when the participants call failed the delivery writes the
\* records of the host and the payload's attendees and no other.
C23_AdminFailuresDegrade ==
  [][DegradedDelivery
       => \A m \in {req'.in.body.object} :
            /\ resp'.status = 200 /\ resp'.body = [success |-> TRUE]
            /\ \A e \in PayloadEmails(m) :
                 \A k \in {generateDocumentId(m.uuid, e)} :
                   /\ k \in DOMAIN ledger'
                   /\ ledger'[k].instance_uuid = m.uuid
                   /\ ledger'[k].participant_email = e
                   /\ ledger'[k].source = "webhook"
                   /\ ledger'[k].indexed_at = now
                   /\ ledger'[k].start_time = m.start_time
                   /\ ~req'.in.apiD.ok
                        => /\ ledger'[k].end_time
                               = (IF m.end_time # NoTime THEN m.end_time ELSE now)
                           /\ ledger'[k].duration_minutes = m.duration
                           /\ ledger'[k].host_email = m.host_email
            /\ ~req'.in.apiP.ok
                 => \A k \in DOMAIN ledger' :
                      (k \notin DOMAIN ledger \/ ledger'[k] # ledger[k])
                        => \E e \in PayloadEmails(m) : k = generateDocumentId(m.uuid, e)
            /\ DOMAIN ledger \subseteq DOMAIN ledger']_vars

\* C23 witness: both admin-client calls failed on the delivery of U1 with host
\* a@x and attendees [b@x, a@x]; the webhook answered 200 and both records
\* carry the payload's duration and host email
C23_Witness ==
  /\ req.op = "webhook" /\ req.in.body.event = "meeting.ended"
  /\ ~req.in.apiP.ok /\ ~req.in.apiD.ok
  /\ req.in.body.object.uuid = U1
  /\ PayloadEmails(req.in.body.object) = {AL, BO}
  /\ resp.status = 200
  /\ \A e \in {AL, BO} :
       /\ generateDocumentId(U1, e) \in DOMAIN ledger
       /\ ledger[generateDocumentId(U1, e)].host_email = req.in.body.object.host_email
       /\ ledger[generateDocumentId(U1, e)].duration_minutes = req.in.body.object.duration
       /\ ~ledger[generateDocumentId(U1, e)].has_summary

----------------------------------------------------------------------------
(* The endpoint URL validation challenge *)

\* Challenge events: two tokens, and a challenge without plainToken
ChallengeEvents ==
  { [event |-> "endpoint.url_validation", plainToken |-> "tok", object |-> NoObject],
    [event |-> "endpoint.url_validation", plainToken |-> "qrs", object |-> NoObject],
    [event |-> "endpoint.url_validation", plainToken |-> "", object |-> NoObject] }

\* A challenge arriving under every header case
Challenge == Webhook(HeaderCases, ChallengeEvents, Healthy, {0}, MaxWrites)

NextChallenge == Tick \/ IngestedWebhook \/ Challenge

SpecChallenge == Init /\ [][NextChallenge]_vars

\* The request of the step passes the method check and the signature check
SignaturePassed ==
  /\ req'.in.method = "POST"
  /\ validateWebhookSignature(req'.in.signature, req'.in.timestamp, req'.in.body, Secret,
                              now * SecPerDay)

\* C24: an endpoint.url_validation event never changes the ledger nor calls
\* the admin client; if its signature check passes and it carries plainToken t
\* it is answered 200 with plainToken t and encryptedToken the HMAC-SHA256 of t
\* under the secret, and 400 if it carries no plainToken; if the check does not
\* pass no challenge response is produced.
C24_ChallengeAnswered ==
  [][(WebhookStep /\ req'.in.body.event = "endpoint.url_validation")
       => \A t \in {req'.in.body.plainToken} :
            /\ ledger' = ledger /\ calls' = <<>>
            /\ (SignaturePassed /\ t # "")
                 => /\ resp'.status = 200
                    /\ resp'.body = [plainToken |-> t,
                                     encryptedToken |-> HmacSha256(Secret, t)]
            /\ (SignaturePassed /\ t = "")
                 => (resp'.status = 400 /\ resp'.body = NoBody)
            /\ ~SignaturePassed
                 => (resp'.status \in {401, 405} /\ resp'.body = NoBody)]_vars

\* C24 witness: the signed challenge carrying "qrs" was answered with "qrs" and
\* its digest under the secret while the ledger held records
C24_Witness ==
  /\ req.op = "webhook" /\ req.in.body.event = "endpoint.url_validation"
  /\ req.in.body.plainToken = "qrs"
  /\ resp.status = 200
  /\ resp.body = [plainToken |-> "qrs", encryptedToken |-> HmacSha256(Secret, "qrs")]
  /\ ledger # EmptyLedger

----------------------------------------------------------------------------
(* Events of other types *)

\* C25: a correctly signed event that is neither endpoint.url_validation nor
\* meeting.ended is acknowledged with 200 {success, ignored}, writes nothing to
\* the ledger and makes no admin-client call.
C25_UnknownEventIgnored ==
  [][(/\ WebhookStep /\ SignaturePassed
      /\ req'.in.body.event \notin {"endpoint.url_validation", "meeting.ended"})
       => /\ resp'.status = 200
          /\ resp'.body = [success |-> TRUE, ignored |-> TRUE]
          /\ ledger' = ledger
          /\ writes' = writes
          /\ calls' = <<>>]_vars

\* C25 witness: a signed meeting.started event was acknowledged while the
\* ledger held records
C25_Witness ==
  /\ req.op = "webhook" /\ req.in.body.event = "meeting.started"
  /\ req.in.signature # <<>> /\ req.in.timestamp # <<>>
  /\ req.in.signature[1] = ExpectedSignature(req.in.timestamp[1], req.in.body, Secret)
  /\ resp.status = 200 /\ resp.body = [success |-> TRUE, ignored |-> TRUE]
  /\ calls = <<>>
  /\ ledger # EmptyLedger

----------------------------------------------------------------------------
(* Requests for the content of occurrences the caller may have no record of *)

\* What the platform would answer about the requested occurrence: it has the
\* content, or not (404), or fails
ProbeAnswers ==
  {a \in [summary : UpstreamStatuses, recordings : RecordingAnswers, download : {200, 404}] :
     a.download = 200 \/ a.recordings.transcript}

\* Content requests of every valid caller for every occurrence, whatever the
\* platform would answer; a caller entitled to the content finds it there
ProbeRequests ==
  { [authorization |-> authorization, instance_uuid |-> instance_uuid,
     summary |-> a.summary, summaryText |-> "",
     recordings |-> a.recordings, download |-> a.download] :
      authorization \in {h \in AuthHeaders : AuthenticateCaller(h).status = 200},
      instance_uuid \in Uuids, a \in ProbeAnswers }

ProbeGetSummary == GetSummary(ProbeRequests, {200}, {""})

ProbeGetTranscript ==
  GetTranscript(ProbeRequests, {200}, {""}, {[status |-> 200, transcript |-> TRUE]}, {200})

NextProbe == IngestedWebhook \/ ProbeGetSummary \/ ProbeGetTranscript

SpecProbe == Init /\ [][NextProbe]_vars

\* The last request was a content request of a valid non-admin caller who has
\* no participation record of the requested occurrence
Unentitled ==
  /\ req.op \in ContentOps
  /\ Caller.status = 200 /\ ~Caller.user.isAdmin
  /\ req.in.instance_uuid # Undefined
  /\ ~HasRecord(req.in.instance_uuid, Caller.user.email)

\* The request with the platform answering as `a` says
AnsweredAs(r, a) ==
  [r EXCEPT !.summary = a.summary, !.recordings = a.recordings, !.download = a.download]

UpstreamCalls == {"getMeetingSummary", "getMeetingRecordings", "downloadTranscript"}

\* C26: a valid non-admin caller without a participation record of the
\* requested occurrence gets the bare 403 denial from get-summary and
\* get-transcript, the same status and body whatever the platform would answer
\* about the occurrence (content present, 404, failure), and the handler makes
\* no upstream lookup.
C26_DenialLeaksNothing ==
  Unentitled
    => /\ resp.status = 403
       /\ resp.error = "Access denied. You did not participate in this meeting."
       /\ resp.body = NoBody
       /\ \A i \in DOMAIN calls : calls[i] \notin UpstreamCalls
       /\ \A a \in ProbeAnswers :
            \A out \in {IF req.op = "get-summary"
                           THEN GetSummaryOutcome(AnsweredAs(req.in, a), ledger)
                           ELSE GetTranscriptOutcome(AnsweredAs(req.in, a), ledger)} :
              /\ out.status = resp.status /\ out.error = resp.error
              /\ out.body = resp.body /\ out.calls = calls

\* C26 witness: bo@x, whose record is of another occurrence, asked for the
\* summary of an occurrence the platform answers 404 about, and was denied
C26_Witness ==
  /\ Unentitled
  /\ req.op = "get-summary" /\ req.in.summary = 404
  /\ \E u \in Uuids : HasRecord(u, Caller.user.email)
  /\ resp.status = 403

----------------------------------------------------------------------------
(* Records of ground truth *)

\* C27: once a record tagged 'webhook' or 'backfill' exists, no step but the
\* retention sweeper's deletion changes any of its fields: a later webhook
\* delivery or backfill run leaves the record, its provenance tag and its
\* content as they were.
C27_GroundTruthImmutable ==
  [][req'.op # "cleanup"
       => \A k \in DOMAIN ledger :
            ledger[k].source \in {"webhook", "backfill"}
              => (k \in DOMAIN ledger' /\ ledger'[k] = ledger[k])]_vars

----------------------------------------------------------------------------
(* Keys of occurrence ids over the platform's alphabet *)

\* Characters of the platform's occurrence ids: a letter, and those of base64
\* that are no letters or digits, '_' among them
IdAlphabet == {"a", "/", "+", "=", "_"}

\* The ids of one or two characters
OccurrenceIds == {<<c>> : c \in IdAlphabet} \cup {<<c, d>> : c \in IdAlphabet, d \in IdAlphabet}

\* createParticipantRecord for a@x and an occurrence of any id
WriteOccurrence ==
  \E u \in OccurrenceIds :
    /\ writes < MaxWrites
    /\ writes' = writes + 1
    /\ ledger' = createParticipantRecord(ledger, RecordFor(u, AL, now))
    /\ attended' = attended \cup {[uuid |-> u, email |-> AL]}
    /\ req' = [op |-> "createParticipantRecord", at |-> now, in |-> [uuid |-> u, email |-> AL]]
    /\ resp' = [status |-> 200, error |-> "", body |-> NoBody]
    /\ calls' = <<"doc.set">>
    /\ repeated' = FALSE
    /\ UNCHANGED <<now, ticks>>
    /\ UNCHANGED <<adminVars, fetchVars, inflight, authVars>>

NextKeys == WriteOccurrence

SpecKeys == Init /\ [][NextKeys]_vars

\* C28: key derivation is injective on occurrence ids over the platform's
\* alphabet ('/', '+', '=' and '_' included): two written pairs of one email
\* and distinct occurrence ids have distinct keys, a record exists for an
\* occurrence only if that occurrence's pair was written, and every written
\* pair still has its own record.
C28_KeysInjective ==
  /\ \A p \in attended, q \in attended :
       (p.email = q.email /\ p.uuid # q.uuid)
         => generateDocumentId(p.uuid, p.email) # generateDocumentId(q.uuid, q.email)
  /\ \A u \in OccurrenceIds :
       participantRecordExists(ledger, u, AL) => [uuid |-> u, email |-> AL] \in attended
  /\ \A p \in attended :
       /\ generateDocumentId(p.uuid, p.email) \in DOMAIN ledger
       /\ ledger[generateDocumentId(p.uuid, p.email)].instance_uuid = p.uuid

----------------------------------------------------------------------------
(* Deliveries processed concurrently (handleWebhook, one invocation each) *)

\* The admin client answers both calls of a delivery, or fails both
BothOrNeither == {<<TRUE, TRUE>>, <<FALSE, FALSE>>}

\* The number of chunks createParticipantRecordsBatch commits for the records
ChunksOf(records) == (Len(records) + BatchSize - 1) \div BatchSize

\* A slice that takes the whole input for every chunk
WholeInput(records, n) == records

\* records.slice(i, i + batchSize) of chunk number n
ChunkOf(records, n) ==
  SubSeq(records, (n - 1) * BatchSize + 1,
         IF n * BatchSize < Len(records) THEN n * BatchSize ELSE Len(records))

\* A delivery arrives: handleWebhook validates it and processMeetingEnded
\* builds its records from the payload and the admin client's answers, up to
\* the first await of a commit
Receive ==
  /\ writes < MaxWrites
  /\ \E event \in MeetingEndedEvents(now) :
     \E apiP \in ParticipantAnswers(event), apiD \in DetailAnswers(event) :
     \E answer \in {a \in {<<apiP.ok, apiD.ok>>} : a \in BothOrNeither} :
     \E r \in {WebhookRequest("signed", now * SecPerDay, event, apiP, apiD, 0)} :
     \E records \in {WebhookRecords(event.object, apiP, apiD, now)} :
       inflight' = Append(inflight, [r |-> r, records |-> records, next |-> 1])
  /\ writes' = writes + 1
  /\ UNCHANGED <<ledger, now, ticks, req, resp, calls, attended, repeated>>
  /\ UNCHANGED <<adminVars, fetchVars, authVars>>

\* batch.commit() of the next chunk of one delivery in flight
Commit ==
  \E i \in DOMAIN inflight :
    /\ inflight[i].next <= ChunksOf(inflight[i].records)
    /\ ledger' = BatchSet(ledger, ChunkOf(inflight[i].records, inflight[i].next))
    /\ inflight' = [inflight EXCEPT ![i].next = @ + 1]
    /\ UNCHANGED <<now, ticks, writes, req, resp, calls, attended, repeated>>
    /\ UNCHANGED <<adminVars, fetchVars, authVars>>

\* A delivery whose chunks are all committed is answered 200
Respond200 ==
  \E i \in DOMAIN inflight :
    /\ inflight[i].next > ChunksOf(inflight[i].records)
    /\ inflight' = SubSeq(inflight, 1, i - 1) \o SubSeq(inflight, i + 1, Len(inflight))
    /\ req' = [op |-> "webhook", at |-> now, in |-> inflight[i].r]
    /\ resp' = [status |-> 200, error |-> "", body |-> [success |-> TRUE]]
    /\ calls' = IF inflight[i].records = <<>>
                  THEN <<"getMeetingParticipants", "getPastMeeting">>
                  ELSE <<"getMeetingParticipants", "getPastMeeting", "batch.commit">>
    /\ attended' = attended \cup {[uuid |-> inflight[i].r.body.object.uuid, email |-> e] :
                                     e \in DeliveredEmails(inflight[i].r)}
    /\ repeated' = FALSE
    /\ UNCHANGED <<ledger, now, ticks, writes>>
    /\ UNCHANGED <<adminVars, fetchVars, authVars>>

NextConcurrent == Tick \/ Receive \/ Commit \/ Respond200

SpecConcurrent == Init /\ [][NextConcurrent]_vars

----------------------------------------------------------------------------
(* The date windows of the backfill *)

\* C30: for a run over from <= to, the windows getUserMeetings requests put
\* every day of from..to, the last day and the day of a single-day range
\* included, in exactly one window, and no window spans more than 30 days.
C30_WindowsCoverRange ==
  (req.op = "backfill" /\ req.in.from <= req.in.to)
    => \A W \in {ReportWindows(req.in.from, req.in.to)} :
         /\ \A d \in req.in.from .. req.in.to :
              Cardinality({i \in DOMAIN W : W[i].from <= d /\ d <= W[i].to}) = 1
         /\ \A i \in DOMAIN W : W[i].to - W[i].from + 1 <= WindowDays + 1

----------------------------------------------------------------------------
(* queryAllMeetings over occurrences with many participant records *)

\* the participants of a large occurrence
CrowdSize == 20

\* The i-th of the distinct lowercase addresses of a crowd
CrowdLetters == <<"a", "b", "c", "d", "u", "x", "1", "2", "+", "=", "_", "@">>

CrowdLetter(i) == CrowdLetters[(i % Len(CrowdLetters)) + 1]

CrowdEmail(i) ==
  <<CrowdLetter(i - 1), CrowdLetter((i - 1) \div Len(CrowdLetters)),
    CrowdLetter((i - 1) \div (Len(CrowdLetters) * Len(CrowdLetters)))>>

\* One batch with the records of the first n participants of an occurrence
IngestCrowd ==
  /\ writes < MaxWrites
  /\ \E u \in Uuids, n \in {1, 2, CrowdSize} :
     \E out \in {createParticipantRecordsBatch(ledger,
                    [i \in 1 .. n |-> RecordFor(u, CrowdEmail(i), now)], 0)} :
       /\ ledger' = out.db
       /\ req' = [op |-> "createParticipantRecordsBatch", at |-> now,
                  in |-> [from_date |-> 0, to_date |-> 0, limit |-> n]]
       /\ resp' = [status |-> 200, error |-> "", body |-> NoBody]
  /\ writes' = writes + 1
  /\ calls' = <<"batch.commit">>
  /\ repeated' = FALSE
  /\ UNCHANGED <<now, ticks, attended>>
  /\ UNCHANGED <<adminVars, fetchVars, inflight, authVars>>

\* The ranges and limits queryAllMeetings is called with
AllQueries == [from_date : {0, 1}, to_date : {1}, limit : {1, 2, 3}]

QueryAllMeetings ==
  \E r \in AllQueries :
    /\ req' = [op |-> "queryAllMeetings", at |-> now, in |-> r]
    /\ resp' = [status |-> 200, error |-> "",
                body |-> [meetings |-> queryAllMeetings(ledger, r.from_date, r.to_date,
                                                        r.limit)]]
    /\ calls' = <<"queryAllMeetings">>
    /\ repeated' = FALSE
    /\ UNCHANGED <<ledger, now, ticks, writes, attended>>
    /\ UNCHANGED <<adminVars, fetchVars, inflight, authVars>>

NextCrowd == IngestCrowd \/ QueryAllMeetings

SpecCrowd == Init /\ [][NextCrowd]_vars

\* The occurrences with a record whose start_time is in the inclusive range
OccurrencesIn(db, fromDate, toDate) ==
  {db[k].instance_uuid :
     k \in {j \in DOMAIN db : fromDate <= db[j].start_time /\ db[j].start_time <= toDate}}

\* C31: queryAllMeetings(from, to, limit) returns the newest min(limit, D)
\* distinct occurrences, D the number of distinct occurrences with a record in
\* the range, newest first and none repeated, however many participant
\* records an occurrence has.
C31_NewestDistinctOccurrences ==
  req.op = "queryAllMeetings"
    => \A M \in {resp.body.meetings} :
       \A O \in {OccurrencesIn(ledger, req.in.from_date, req.in.to_date)} :
         /\ Len(M) = (IF Cardinality(O) < req.in.limit THEN Cardinality(O) ELSE req.in.limit)
         /\ \A i \in DOMAIN M : M[i].instance_uuid \in O
         /\ \A i \in DOMAIN M, j \in DOMAIN M : i < j => M[i].date > M[j].date
         /\ \A o \in O :
              o \notin {M[i].instance_uuid : i \in DOMAIN M}
                => \A i \in DOMAIN M : M[i].date >= PastMeeting(o).start_time

----------------------------------------------------------------------------
(* queryMeetingsByEmail over ISO 8601 strings *)

\* the last second of a day
LastSecond == 86399

\* the last millisecond of a second
LastMillis == 999

\* Timestamps are strings and Firestore compares them as strings.  A string is
\* kept as a number that orders as the strings do: after the common prefix
\* "YYYY-MM-DDTHH:MM:SS" the platform's form ends in "Z" and toISOString()'s in
\* ".mmmZ", and "Z" sorts after "." and every digit.
IsoOfPlatform(day, sec) == (day * SecPerDay + sec) * (LastMillis + 2) + (LastMillis + 1)

\* new Date(...).toISOString()
toISOString(day, sec, ms) == (day * SecPerDay + sec) * (LastMillis + 2) + ms

\* The second a timestamp string denotes
SecondOf(iso) == iso \div (LastMillis + 2)

\* The record of a participant of an occurrence that started at a second of a
\* day, start_time as the platform spells it
RecordAt(u, email, day, sec, clock) ==
  [RecordFor(u, email, clock) EXCEPT !.start_time = IsoOfPlatform(day, sec)]

StartSeconds == {0, LastSecond}

IndexAt ==
  /\ writes < MaxWrites
  /\ \E u \in Uuids, email \in {AL, BO}, day \in {0, 1}, sec \in StartSeconds :
       /\ \A k \in DOMAIN ledger :
            ledger[k].instance_uuid = u => ledger[k].start_time = IsoOfPlatform(day, sec)
       /\ ledger' = createParticipantRecord(ledger, RecordAt(u, email, day, sec, now))
       /\ req' = [op |-> "createParticipantRecord", at |-> now,
                  in |-> [email |-> email, from_date |-> day, to_date |-> day, limit |-> 0]]
  /\ writes' = writes + 1
  /\ resp' = [status |-> 200, error |-> "", body |-> NoBody]
  /\ calls' = <<"doc.set">>
  /\ repeated' = FALSE
  /\ UNCHANGED <<now, ticks, attended>>
  /\ UNCHANGED <<adminVars, fetchVars, inflight, authVars>>

\* The emails, 'YYYY-MM-DD' dates and limits queryMeetingsByEmail is called with
EmailQueries == [email : {AL, ALu, BO}, from_date : {0, 1}, to_date : {0, 1}, limit : {1, 2}]

\* fromIso = new Date(fromDate).toISOString(),
\* toIso = new Date(toDate + 'T23:59:59.999Z').toISOString()
QueryMeetingsByEmail ==
  \E r \in EmailQueries :
    /\ req' = [op |-> "queryMeetingsByEmail", at |-> now, in |-> r]
    /\ resp' = [status |-> 200, error |-> "",
                body |-> [meetings |->
                            queryMeetingsByEmail(ledger, r.email,
                              toISOString(r.from_date, 0, 0),
                              toISOString(r.to_date, LastSecond, LastMillis), r.limit)]]
    /\ calls' = <<"queryMeetingsByEmail">>
    /\ repeated' = FALSE
    /\ UNCHANGED <<ledger, now, ticks, writes, attended>>
    /\ UNCHANGED <<adminVars, fetchVars, inflight, authVars>>

NextRange == IndexAt \/ QueryMeetingsByEmail

SpecRange == Init /\ [][NextRange]_vars

\* The occurrences with a record of the lowercased email that started within
\* from 00:00:00 .. to 23:59:59.999
StartedWithin(db, email, fromDate, toDate) ==
  {db[k].instance_uuid :
     k \in {j \in DOMAIN db :
              /\ db[j].participant_email = ToLowerCase(email)
              /\ fromDate * SecPerDay <= SecondOf(db[j].start_time)
              /\ SecondOf(db[j].start_time) <= toDate * SecPerDay + LastSecond}}

\* C32: queryMeetingsByEmail(e, from, to, limit) returns the occurrences with
\* a record of lowercase(e) that started within [from 00:00:00, to
\* 23:59:59.999], newest first, each once, at most limit of them, and the
\* limit newest ones when more match.
C32_ParticipantRangeQuery ==
  req.op = "queryMeetingsByEmail"
    => \A M \in {resp.body.meetings} :
       \A O \in {StartedWithin(ledger, req.in.email, req.in.from_date, req.in.to_date)} :
         /\ Len(M) = (IF Cardinality(O) < req.in.limit THEN Cardinality(O) ELSE req.in.limit)
         /\ \A i \in DOMAIN M : M[i].instance_uuid \in O
         /\ \A i \in DOMAIN M, j \in DOMAIN M :
              i < j => (M[i].date >= M[j].date /\ M[i].instance_uuid # M[j].instance_uuid)
         /\ \A k \in DOMAIN ledger :
              (/\ ledger[k].instance_uuid \in O
               /\ ledger[k].instance_uuid \notin {M[i].instance_uuid : i \in DOMAIN M})
                => \A i \in DOMAIN M : M[i].date >= ledger[k].start_time

----------------------------------------------------------------------------
(* createParticipantRecordsBatch, chunk by chunk *)

\* The sizes of the batches: none, few, and around one, two and three chunks
BatchLengths ==
  {0, 1, 2, BatchSize - 1, BatchSize, BatchSize + 1, 2 * BatchSize, 2 * BatchSize + 1,
   3 * BatchSize, 3 * BatchSize + 1}

\* The call: its input
BatchCalls == [uuid : Uuids, n : BatchLengths]

BatchRecords(call, clock) == [i \in 1 .. call.n |-> RecordFor(call.uuid, CrowdEmail(i), clock)]

\* createParticipantRecordsBatch(records) is called, once, on the empty ledger
SubmitBatch ==
  /\ inflight = <<>> /\ req.op = "none"
  /\ \E call \in BatchCalls :
       /\ inflight' = <<[r |-> call, records |-> BatchRecords(call, now), next |-> 1]>>
       /\ req' = [op |-> "createParticipantRecordsBatch", at |-> now,
                  in |-> [uuid |-> call.uuid, n |-> call.n, failChunk |-> 0]]
  /\ UNCHANGED <<ledger, now, ticks, writes, resp, calls, attended, repeated>>
  /\ UNCHANGED <<adminVars, fetchVars, authVars>>

\* await batch.commit() rejects: nothing of the batch is written and the
\* error leaves the function
RejectCommit ==
  /\ Len(inflight) = 1
  /\ inflight[1].next <= ChunksOf(inflight[1].records)
  /\ inflight' = <<>>
  /\ req' = [req EXCEPT !.in.failChunk = inflight[1].next]
  /\ resp' = [status |-> 500, error |-> "commit rejected", body |-> NoBody]
  /\ calls' = [i \in 1 .. inflight[1].next |-> "batch.commit"]
  /\ repeated' = FALSE
  /\ UNCHANGED <<ledger, now, ticks, writes, attended>>
  /\ UNCHANGED <<adminVars, fetchVars, authVars>>

\* The loop is over and the function returns
ReturnBatch ==
  /\ Len(inflight) = 1
  /\ inflight[1].next > ChunksOf(inflight[1].records)
  /\ inflight' = <<>>
  /\ resp' = [status |-> 200, error |-> "", body |-> NoBody]
  /\ calls' = [i \in 1 .. ChunksOf(inflight[1].records) |-> "batch.commit"]
  /\ repeated' = FALSE
  /\ UNCHANGED <<ledger, now, ticks, writes, req, attended>>
  /\ UNCHANGED <<adminVars, fetchVars, authVars>>

NextChunks == SubmitBatch \/ Commit \/ RejectCommit \/ ReturnBatch

SpecChunks == Init /\ [][NextChunks]_vars

\* The ledger holds the first m of the records, each under its key, and
\* nothing else
HoldsFirst(records, m) ==
  /\ DOMAIN ledger = {generateDocumentId(records[i].instance_uuid,
                                          records[i].participant_email) : i \in 1 .. m}
  /\ \A i \in 1 .. m :
       ledger[generateDocumentId(records[i].instance_uuid, records[i].participant_email)]
         = records[i]
  /\ Cardinality(DOMAIN ledger) = m

\* C33: createParticipantRecordsBatch commits its input in order in chunks of
\* at most 500, one atomic batch after another: while it runs the ledger
\* holds exactly the records of the chunks committed so far; when it returns
\* every input record is in the ledger; when the commit of chunk k is
\* rejected the error propagates, the chunks before k stay committed and no
\* record of chunk k or of a later chunk is visible.
C33_ChunksInOrder ==
  req.op = "createParticipantRecordsBatch"
    => \A records \in {BatchRecords(req.in, req.at)} :
         /\ inflight # <<>>
              => /\ inflight[1].records = records
                 /\ inflight[1].next <= ChunksOf(records) + 1
                 /\ HoldsFirst(records, Least((inflight[1].next - 1) * BatchSize, req.in.n))
         /\ (inflight = <<>> /\ resp.status = 200)
              => /\ req.in.failChunk = 0
                 /\ HoldsFirst(records, req.in.n)
                 /\ createParticipantRecordsBatch(EmptyLedger, records, 0)
                      = [db |-> ledger, ok |-> TRUE]
         /\ (inflight = <<>> /\ resp.status # 200)
              => /\ resp.status = 500
                 /\ req.in.failChunk \in 1 .. ChunksOf(records)
                 /\ HoldsFirst(records, (req.in.failChunk - 1) * BatchSize)
                 /\ createParticipantRecordsBatch(EmptyLedger, records, req.in.failChunk)
                      = [db |-> ledger, ok |-> FALSE]

\* C33 witness: of a batch of 1001 records the commit of the third chunk was
\* rejected; the first thousand records are in the ledger, the last is not
C33_Witness ==
  /\ req.op = "createParticipantRecordsBatch" /\ inflight = <<>>
  /\ req.in.n = 2 * BatchSize + 1 /\ req.in.failChunk = 3
  /\ resp.status = 500
  /\ Cardinality(DOMAIN ledger) = 2 * BatchSize
  /\ ~participantRecordExists(ledger, req.in.uuid, CrowdEmail(req.in.n))

----------------------------------------------------------------------------
(* get-transcript: the recording could not be fetched *)

Called(name) == \E i \in DOMAIN calls : calls[i] = name

\* The platform has no recording transcript of the occurrence: it answers
\* 404, or lists the recording files without a transcript file
NoRecordingTranscript(r) ==
  \/ r.recordings.status = 404
  \/ r.recordings.status = 200 /\ ~r.recordings.transcript

\* Fetching the recording failed: the listing failed otherwise, or the
\* download of the listed transcript file failed
RecordingFetchFailed(r) ==
  \/ r.recordings.status \notin {200, 404}
  \/ r.recordings.status = 200 /\ r.recordings.transcript /\ r.download # 200

\* C34: in get-transcript a failure while fetching the recording that is not
\* 'no recording' is answered with an error and the summary is not asked for;
\* summary text is returned only when the platform has no recording
\* transcript.
C34_RecordingFailureSurfaced ==
  (req.op = "get-transcript" /\ Called("getMeetingRecordings"))
    => /\ RecordingFetchFailed(req.in)
            => resp.status >= 400 /\ ~Called("getMeetingSummary")
       /\ (resp.status = 200 /\ resp.body.source = "ai_summary")
            => NoRecordingTranscript(req.in)

----------------------------------------------------------------------------
(* getAdminToken: the cache and the refresh margin *)

\* getAdminToken under concurrent invocations, for one admin-client function
NextToken ==
  \/ \E c \in Callers : CallAdminOf(c, {"getMeetingSummary"})
  \/ \E c \in Callers : CallUnconfigured(c)
  \/ \E c \in Callers : TokenExchangeAnswered(c)
  \/ \E c \in Callers : FetchAnsweredWith(c, {200, 500})
  \/ \E c \in Callers : Finish(c)
  \/ Elapse

SpecToken == Init /\ [][NextToken]_vars

\* getAdminToken returns to caller c from the cache, posts a token exchange,
\* returns the exchanged token, or throws
ReturnsCached(c) == proc[c].pc = "idle" /\ proc'[c].pc = "fetching"

PostsExchange(c) == proc[c].pc = "idle" /\ proc'[c].pc = "exchanging"

ReturnsExchanged(c) == proc[c].pc = "exchanging" /\ proc'[c].pc = "fetching"

Throws(c) == proc[c].pc \in {"idle", "exchanging"} /\ proc'[c].pc = "failed"

\* C35: getAdminToken returns the cached token, without an exchange, only
\* when its recorded expiry is more than five minutes after the current time,
\* and exchanges otherwise; a successful exchange caches the new token with
\* expiry = the time the call started + expires_in, which is not later than
\* the answer's time + expires_in, so a returned token has more than the
\* margin left or was just issued; a failed exchange and missing credentials
\* throw and leave the cached token and expiry as they were.
C35_CacheWithinMargin ==
  [][\A c \in Callers :
       /\ ReturnsCached(c)
            => /\ cachedToken # 0 /\ tokenExpiry > dateNow + RefreshMargin
               /\ proc'[c].token = cachedToken
               /\ issued' = issued
               /\ UNCHANGED <<cachedToken, tokenExpiry>>
       /\ (proc[c].pc = "idle" /\ proc'[c].pc # "idle"
             /\ (cachedToken = 0 \/ tokenExpiry <= dateNow + RefreshMargin))
            => \/ PostsExchange(c) /\ issued' = issued + 1 /\ proc'[c].now = dateNow
               \/ Throws(c) /\ issued' = issued
       /\ ReturnsExchanged(c)
            => /\ cachedToken' = proc[c].token /\ proc'[c].token = proc[c].token
               /\ \E expires_in \in ExpiresIn :
                    /\ tokenExpiry' = proc[c].now + expires_in
                    /\ tokenExpiry' <= dateNow + expires_in
       /\ Throws(c) => UNCHANGED <<cachedToken, tokenExpiry>>]_vars

\* C35 witness: a caller has just been given the cached token, which another
\* call's exchange stored, while the clock has advanced since that exchange
C35_Witness ==
  \E c \in Callers :
    /\ proc[c].pc = "fetching" /\ proc[c].token = cachedToken
    /\ proc[c].now > 0 /\ tokenExpiry > proc[c].now + RefreshMargin
    /\ tokenExpiry < proc[c].now + RefreshMargin + 2
    /\ issued = 1
    /\ \E d \in Callers : proc[d].pc = "failed" /\ proc[d].token = 0

----------------------------------------------------------------------------
(* deleteOldRecords, page by page *)

\* How many records of each occurrence the ledger holds before the sweep
SweptLengths ==
  {0, 1, DeleteLimit - 1, DeleteLimit, DeleteLimit + 1, 2 * DeleteLimit + 1}

KeptLengths == {0, 1, 2}

\* The ledger is filled: so many records of the occurrence that started on day
\* 0 and so many of the one that started on day 1
FillLedger ==
  /\ ledger = EmptyLedger /\ req.op = "none"
  /\ \E n1 \in SweptLengths, n2 \in KeptLengths :
       /\ n1 + n2 > 0
       /\ ledger' = createParticipantRecordsBatch(
                      createParticipantRecordsBatch(
                        EmptyLedger, BatchRecords([uuid |-> U1, n |-> n1], now), 0).db,
                      BatchRecords([uuid |-> U2, n |-> n2], now), 0).db
       /\ req' = [op |-> "createParticipantRecordsBatch", at |-> now,
                  in |-> [uuid |-> U1, n |-> n1 + n2, failChunk |-> 0]]
  /\ UNCHANGED <<now, ticks, writes, resp, calls, attended, repeated>>
  /\ UNCHANGED <<adminVars, fetchVars, inflight, authVars>>

\* deleteOldRecords(cutoffDate) is called: totalDeleted = 0, hasMore = true
StartSweep ==
  /\ inflight = <<>> /\ req.op = "createParticipantRecordsBatch"
  /\ \E cutoff \in {0, 1, 2} :
       /\ inflight' = <<[cutoff |-> cutoff, totalDeleted |-> 0]>>
       /\ req' = [op |-> "deleteOldRecords", at |-> now,
                  in |-> [cutoff |-> cutoff,
                          old |-> Cardinality(OlderThan(ledger, cutoff))]]
  /\ calls' = <<>>
  /\ UNCHANGED <<ledger, now, ticks, writes, resp, attended, repeated>>
  /\ UNCHANGED <<adminVars, fetchVars, authVars>>

\* One pass of the while loop: the query, and for a page that is not empty the
\* batch of deletes; the function returns after an empty or a short page
SweepPage ==
  /\ Len(inflight) = 1 /\ req.op = "deleteOldRecords"
  /\ \E page \in {QueryPage(ledger, inflight[1].cutoff)} :
     \E total \in {inflight[1].totalDeleted + Cardinality(page)} :
       /\ ledger' = Restrict(ledger, DOMAIN ledger \ page)
       /\ calls' = IF page = {} THEN Append(calls, "get")
                   ELSE Append(Append(calls, "get"), "batch.commit")
       /\ IF Cardinality(page) < DeleteLimit
            THEN /\ inflight' = <<>>
                 /\ resp' = [status |-> 200, error |-> "", body |-> [deleted |-> total]]
            ELSE /\ inflight' = <<[inflight[1] EXCEPT !.totalDeleted = total]>>
                 /\ resp' = resp
  /\ UNCHANGED <<now, ticks, writes, req, attended, repeated>>
  /\ UNCHANGED <<adminVars, fetchVars, authVars>>

NextSweep == FillLedger \/ StartSweep \/ SweepPage

SpecSweep == Init /\ [][NextSweep]_vars

\* The query and the commit of a pass are answered: a pass that has begun ends
SpecSweepFair == SpecSweep /\ WF_vars(SweepPage)

Sweeping == inflight # <<>> /\ req.op = "deleteOldRecords"

Swept == inflight = <<>> /\ req.op = "deleteOldRecords" /\ resp.status = 200

CountGets == Cardinality({i \in DOMAIN calls : calls[i] = "get"})

----------------------------------------------------------------------------
(* ZoomClient.request (the MCP server's client of the platform's API) *)

\* this.accessToken = null
NoAccessToken == ""

\* What the platform and the token store answer during one call: whether
\* getValidAccessToken yields a token at the start and after deleteTokens, the
\* status of the first and of the second fetch, whether loadTokens finds a
\* refresh token, whether refreshAccessToken and saveTokens succeed
Exchanges ==
  [authorize : BOOLEAN, first : {200, 401, 500}, stored : BOOLEAN, refresh : BOOLEAN,
   save : BOOLEAN, reauthorize : BOOLEAN, second : {200, 401, 500},
   accessToken : {NoAccessToken, "cached"}]

Thrown(kind, status, made) == [kind |-> kind, status |-> status, calls |-> made]

Returned(made) == [kind |-> "returned", status |-> 200, calls |-> made]

\* A request that makes one attempt whatever the answer
requestOnce(s, accessToken, retry, made) ==
  IF accessToken = NoAccessToken /\ ~s.authorize
    THEN Thrown("Error", 0, Append(made, "getValidAccessToken"))
  ELSE IF s.first \notin 200 .. 299
    THEN Thrown("ZoomApiError", s.first, Append(made, "fetch"))
  ELSE Returned(Append(made, "fetch"))

\* request(endpoint, options, retry): made is the sequence of the calls made
\* so far
RECURSIVE request(_, _, _, _)
request(s, accessToken, retry, made) ==
  LET got == IF accessToken = NoAccessToken THEN Append(made, "getValidAccessToken") ELSE made
      status == IF retry THEN s.first ELSE s.second
      fetched == Append(got, "fetch")
      loaded == Append(fetched, "loadTokens")
      refreshed == Append(loaded, "refreshAccessToken")
      saved == Append(refreshed, "saveTokens")
      reauthorized == Append(Append(IF s.refresh THEN saved ELSE refreshed, "deleteTokens"),
                             "getValidAccessToken")
  IN IF accessToken = NoAccessToken /\ ~s.authorize THEN Thrown("Error", 0, got)
     ELSE IF status = 401 /\ retry /\ s.stored
       THEN IF s.refresh /\ s.save THEN request(s, "refreshed", FALSE, saved)
            ELSE IF s.reauthorize THEN request(s, "reauthorized", FALSE, reauthorized)
            ELSE Thrown("Error", 0, reauthorized)
     ELSE IF status \notin 200 .. 299
       THEN Thrown("ZoomApiError", status, IF status = 401 /\ retry THEN loaded ELSE fetched)
     ELSE Returned(fetched)

\* A method of the client calls this.request(endpoint)
ZoomRequest ==
  \E s \in Exchanges :
  \E out \in {request(s, s.accessToken, TRUE, <<>>)} :
    /\ req' = [op |-> "request", at |-> now, in |-> s]
    /\ resp' = [status |-> out.status, error |-> out.kind, body |-> NoBody]
    /\ calls' = out.calls
    /\ repeated' = FALSE
    /\ UNCHANGED <<ledger, now, ticks, writes, attended>>
    /\ UNCHANGED <<adminVars, fetchVars, inflight, authVars>>

NextClient == ZoomRequest

SpecClient == Init /\ [][NextClient]_vars

CountCalls(name) == Cardinality({i \in DOMAIN calls : calls[i] = name})

\* The calls made after the first fetch
AfterFirstFetch ==
  SubSeq(calls, (CHOOSE i \in DOMAIN calls : calls[i] = "fetch" /\
                   \A j \in 1 .. i - 1 : calls[j] # "fetch") + 1, Len(calls))

\* C37: one call of ZoomClient.request makes at most two fetches; a second
\* fetch is made only after the first was answered 401 and then a refresh, or
\* after a failed refresh the deletion of the tokens and a re-authorization,
\* yielded a token; there is at most one refresh and one re-authorization,
\* each followed by exactly one retry; a 401 on the retry is raised as a
\* ZoomApiError and nothing more is tried.
C37_AtMostTwoAttempts ==
  req.op = "request"
    => /\ CountCalls("fetch") <= 2
       /\ CountCalls("refreshAccessToken") <= 1
       /\ CountCalls("deleteTokens") <= 1
       /\ CountCalls("fetch") = 2
            <=> /\ req.in.accessToken # NoAccessToken \/ req.in.authorize
                /\ req.in.first = 401 /\ req.in.stored
                /\ (req.in.refresh /\ req.in.save) \/ req.in.reauthorize
       /\ CountCalls("fetch") >= 1
            => \A later \in {AfterFirstFetch} :
                 /\ CountCalls("refreshAccessToken") = 1
                      => req.in.first = 401 /\ later[1] = "loadTokens"
                           /\ later[2] = "refreshAccessToken"
                 /\ CountCalls("deleteTokens") = 1
                      => /\ CountCalls("refreshAccessToken") = 1
                         /\ ~(req.in.refresh /\ req.in.save)
                         /\ \E i \in 1 .. Len(later) - 1 :
                              later[i] = "deleteTokens" /\ later[i + 1] = "getValidAccessToken"
                 /\ CountCalls("fetch") = 2
                      => /\ later[Len(later)] = "fetch"
                         /\ CountCalls("refreshAccessToken") = 1
                         /\ CountCalls("deleteTokens") = 1 <=> ~(req.in.refresh /\ req.in.save)
       /\ (CountCalls("fetch") = 2 /\ req.in.second = 401)
            => resp.error = "ZoomApiError" /\ resp.status = 401
       /\ (CountCalls("fetch") = 2 /\ req.in.second = 200) => resp.error = "returned"

\* C37 witness: the first fetch was answered 401, the refresh failed, the
\* tokens were deleted, the user authorized again, and the retry was answered
\* 401 too: a ZoomApiError after two fetches
C37_Witness ==
  /\ req.op = "request"
  /\ calls = <<"fetch", "loadTokens", "refreshAccessToken", "deleteTokens",
                "getValidAccessToken", "fetch">>
  /\ resp.error = "ZoomApiError" /\ resp.status = 401

----------------------------------------------------------------------------
(* Token store of the MCP server (auth/token-store.ts) *)

\* The token responses of the platform; expires_in in days
TokenResponses ==
  { [access_token |-> "a1", refresh_token |-> "r1", expires_in |-> 1],
    [access_token |-> "a2", refresh_token |-> "r2", expires_in |-> 2] }

\* keytar of a call: the module cannot be imported, its call succeeds, or its
\* call throws
KeytarAnswers == {"missing", "works", "throws"}

\* process.env.ZOOM_REFRESH_TOKEN, "" when not set
EnvRefreshTokens == {"", "r-env"}

\* { ...tokens, expires_at: Date.now() + tokens.expires_in * 1000 }; the JSON
\* text written keeps the strings and the numbers of the object
WithExpiry(tokens, clock) ==
  [access_token |-> tokens.access_token, refresh_token |-> tokens.refresh_token,
   expires_in |-> tokens.expires_in, expires_at |-> clock + tokens.expires_in]

saveTokens(store, tokens, keytar, clock) ==
  IF keytar = "works" THEN [store EXCEPT !.keychain = WithExpiry(tokens, clock)]
  ELSE [store EXCEPT !.file = WithExpiry(tokens, clock)]

\* The partial token object made of ZOOM_REFRESH_TOKEN
EnvTokens(env) ==
  [access_token |-> "", refresh_token |-> env, expires_in |-> 0, expires_at |-> 0]

loadTokens(store, keytar, env) ==
  IF keytar = "works" /\ store.keychain # NoBody THEN store.keychain
  ELSE IF store.file # NoBody THEN store.file
  ELSE IF env # "" THEN EnvTokens(env)
  ELSE NoBody

deleteTokens(store, keytar) ==
  [keychain |-> IF keytar = "works" THEN NoBody ELSE store.keychain, file |-> NoBody]

SaveTokens ==
  \E tokens \in TokenResponses, keytar \in KeytarAnswers :
    /\ tokenStore' = saveTokens(tokenStore, tokens, keytar, now)
    /\ req' = [op |-> "saveTokens", at |-> now, in |-> [tokens |-> tokens, keytar |-> keytar]]
    /\ resp' = [status |-> 0, error |-> "", body |-> NoBody]
    /\ UNCHANGED <<ledger, now, ticks, writes, calls, attended, repeated>>
    /\ UNCHANGED <<adminVars, fetchVars, inflight, flow>>

LoadTokens ==
  \E keytar \in KeytarAnswers, env \in EnvRefreshTokens :
    /\ req' = [op |-> "loadTokens", at |-> now, in |-> [keytar |-> keytar, env |-> env]]
    /\ resp' = [status |-> 0, error |-> "", body |-> loadTokens(tokenStore, keytar, env)]
    /\ UNCHANGED <<ledger, now, ticks, writes, calls, attended, repeated>>
    /\ UNCHANGED <<adminVars, fetchVars, inflight, authVars>>

DeleteTokens ==
  \E keytar \in KeytarAnswers :
    /\ tokenStore' = deleteTokens(tokenStore, keytar)
    /\ req' = [op |-> "deleteTokens", at |-> now, in |-> [keytar |-> keytar]]
    /\ resp' = [status |-> 0, error |-> "", body |-> NoBody]
    /\ UNCHANGED <<ledger, now, ticks, writes, calls, attended, repeated>>
    /\ UNCHANGED <<adminVars, fetchVars, inflight, flow>>

NextStore == Tick \/ SaveTokens \/ LoadTokens \/ DeleteTokens

SpecStore == Init /\ [][NextStore]_vars

\* C38: the loadTokens that follows a completed saveTokens(t) returns t's
\* access_token and refresh_token with expires_at = save time + expires_in,
\* whichever backend the save used and whatever the backends held; the
\* loadTokens that follows a completed deleteTokens returns null, or, with
\* ZOOM_REFRESH_TOKEN set, an expired token carrying only that refresh token.
C38_TokenStoreRoundTrip ==
  [][/\ (req.op = "saveTokens" /\ req'.op = "loadTokens")
          => resp'.body = WithExpiry(req.in.tokens, req.at)
     /\ (req.op = "deleteTokens" /\ req'.op = "loadTokens")
          => resp'.body = IF req'.in.env = "" THEN NoBody ELSE EnvTokens(req'.in.env)]_vars

----------------------------------------------------------------------------
(* startOAuthFlow (auth/oauth.ts): the local callback server *)

\* generateState(): the random state of a flow
FlowStates == {"s1", "s2"}

\* The requests that reach the local server; "" stands for an absent parameter
CallbackRequests ==
  [path : {"/callback", "/"}, code : {"", "c1"}, state : {"", "s1", "s2"},
   error : {"", "access_denied"}]

\* resolve(tokens) and reject(err): a promise settles once, later calls do
\* nothing
Resolve(f) == [f EXCEPT !.phase = IF @ = "pending" THEN "resolved" ELSE @]

Reject(f) == [f EXCEPT !.phase = IF @ = "pending" THEN "rejected" ELSE @]

clearTimeout(f) == [f EXCEPT !.timer = IF @ = "armed" THEN "cleared" ELSE @]

\* server.close(): a server that listens stops listening
CloseServer(f) == [f EXCEPT !.server = "closed"]

\* new Promise(...): the state is drawn, the server is created and asked to
\* listen, the timeout is set
StartOAuthFlow ==
  /\ flow.phase = "none"
  /\ \E state \in FlowStates :
       /\ flow' = [NoFlow EXCEPT !.phase = "pending", !.server = "binding",
                                 !.timer = "armed", !.state = state]
       /\ req' = [op |-> "startOAuthFlow", at |-> now, in |-> [state |-> state]]
  /\ UNCHANGED <<ledger, now, ticks, writes, resp, calls, attended, repeated>>
  /\ UNCHANGED <<adminVars, fetchVars, inflight, tokenStore>>

\* The port is bound: the listen callback opens the browser
Listening ==
  /\ flow.server = "binding"
  /\ flow' = [flow EXCEPT !.server = "listening"]
  /\ UNCHANGED <<proxyVars, adminVars, fetchVars, inflight, tokenStore>>

\* server.on('error'): the port could not be bound (EADDRINUSE, EACCES), or
\* the listening server reports an error (of accept); the handler clears the
\* timeout and rejects
ServerError ==
  /\ flow.server \in {"binding", "listening"}
  /\ flow.phase = "pending" \/ flow.timer = "armed"
  /\ flow' = Reject(clearTimeout(
                [flow EXCEPT !.server = IF @ = "binding" THEN "closed" ELSE @]))
  /\ req' = [op |-> "server.error", at |-> now, in |-> [state |-> flow.state]]
  /\ UNCHANGED <<ledger, now, ticks, writes, resp, calls, attended, repeated>>
  /\ UNCHANGED <<adminVars, fetchVars, inflight, tokenStore>>

\* The request handler of the server, up to its await of the token exchange
HandleCallback ==
  /\ flow.server = "listening"
  /\ flow.handlers < MaxHandlers
  /\ \E q \in CallbackRequests :
       /\ req' = [op |-> "callback", at |-> now, in |-> q]
       /\ IF q.path # "/callback"
            THEN /\ flow' = flow
                 /\ resp' = [status |-> 404, error |-> "Not Found", body |-> NoBody]
          ELSE IF q.error # ""
            THEN /\ flow' = Reject(CloseServer(clearTimeout(flow)))
                 /\ resp' = [status |-> 400, error |-> "OAuth error", body |-> NoBody]
          ELSE IF q.state # flow.state
            THEN /\ flow' = Reject(CloseServer(clearTimeout(flow)))
                 /\ resp' = [status |-> 400, error |-> "State mismatch", body |-> NoBody]
          ELSE IF q.code = ""
            THEN /\ flow' = Reject(CloseServer(clearTimeout(flow)))
                 /\ resp' = [status |-> 400, error |-> "No authorization code",
                             body |-> NoBody]
          ELSE /\ flow' = [flow EXCEPT !.handlers = @ + 1, !.exchanges = @ + 1]
               /\ resp' = resp
  /\ UNCHANGED <<ledger, now, ticks, writes, calls, attended, repeated>>
  /\ UNCHANGED <<adminVars, fetchVars, inflight, tokenStore>>

\* exchangeCodeForTokens is answered: the tokens are saved and the flow
\* resolves, or the handler's catch rejects
ExchangeAnswered ==
  /\ flow.handlers > 0
  /\ \E tokens \in TokenResponses \cup {NoBody}, keytar \in {"works", "missing"} :
       /\ req' = [op |-> "exchangeCodeForTokens", at |-> now,
                  in |-> [state |-> flow.state]]
       /\ IF tokens # NoBody
            THEN /\ tokenStore' = saveTokens(tokenStore, tokens, keytar, now)
                 /\ flow' = Resolve(CloseServer(clearTimeout(
                               [flow EXCEPT !.handlers = @ - 1, !.saves = @ + 1])))
                 /\ resp' = [status |-> 200, error |-> "", body |-> tokens]
            ELSE /\ tokenStore' = tokenStore
                 /\ flow' = Reject(CloseServer(clearTimeout(
                               [flow EXCEPT !.handlers = @ - 1])))
                 /\ resp' = [status |-> 500, error |-> "Token exchange failed",
                             body |-> NoBody]
  /\ UNCHANGED <<ledger, now, ticks, writes, calls, attended, repeated>>
  /\ UNCHANGED <<adminVars, fetchVars, inflight>>

\* The five minutes are over: the timer that was not cleared fires
Timeout ==
  /\ flow.timer = "armed"
  /\ flow' = Reject(CloseServer([flow EXCEPT !.timer = "fired"]))
  /\ req' = [op |-> "timeout", at |-> now, in |-> [state |-> flow.state]]
  /\ UNCHANGED <<ledger, now, ticks, writes, resp, calls, attended, repeated>>
  /\ UNCHANGED <<adminVars, fetchVars, inflight, tokenStore>>

NextOAuth ==
  StartOAuthFlow \/ Listening \/ ServerError \/ HandleCallback \/ ExchangeAnswered \/ Timeout

SpecOAuth == Init /\ [][NextOAuth]_vars

\* A timer that is set and not cleared fires
SpecOAuthFair == SpecOAuth /\ WF_vars(Timeout)

Settled == flow.phase \in {"resolved", "rejected"}

CallbackStep == req'.op = "callback" /\ flow.server = "listening" /\ req'.in.path = "/callback"

\* How a flow goes apart from the state of its server when it has settled
OAuthFlowGuarded ==
  /\ [][/\ flow'.exchanges > flow.exchanges
            => /\ CallbackStep /\ req'.in.state = flow.state
               /\ req'.in.error = "" /\ req'.in.code # ""
               /\ flow'.exchanges = flow.exchanges + 1
        /\ (flow'.saves > flow.saves \/ tokenStore' # tokenStore)
            => /\ req'.op = "exchangeCodeForTokens" /\ flow.handlers > 0
               /\ flow'.saves = flow.saves + 1 /\ flow'.saves <= flow.exchanges
        /\ (CallbackStep /\ (req'.in.error # "" \/ req'.in.state # flow.state
                               \/ req'.in.code = ""))
            => /\ flow.phase = "pending" => flow'.phase = "rejected"
               /\ flow'.exchanges = flow.exchanges /\ flow'.saves = flow.saves
               /\ tokenStore' = tokenStore
               /\ flow'.server = "closed"
        /\ Settled => flow'.phase = flow.phase
        /\ (flow.phase = "pending" /\ flow'.phase = "resolved")
            => flow'.saves > flow.saves /\ resp'.body \in TokenResponses]_vars
  /\ (flow.phase = "pending") ~> Settled

\* C39: in startOAuthFlow a code is exchanged and tokens are saved only for a
\* /callback request whose state is the flow's; a callback with an error, a
\* mismatched state or no code rejects the flow without an exchange or a
\* save; and every flow settles, once, resolved with tokens or rejected, with
\* the local server closed.
C39_FlowSettlesOnceClosed ==
  /\ OAuthFlowGuarded
  /\ [](Settled => flow.server = "closed")

====
